---- MODULE Spec2Model ----
(***************************************************************************)
(* A model of the document-structuring pipeline:                           *)
(*   src/src/json_to_schema.py   block tree -> clause map -> hierarchy ->  *)
(*                               flat chunk list (convert_file)            *)
(*   src/src/schema_to_chunks.py chunk list -> per-chunk records with      *)
(*                               extracted and resolved references         *)
(*                                                                         *)
(* Python strings are modelled as sequences of one-character strings, so   *)
(* that split, join, prefix tests and lexicographic comparison are         *)
(* computed and not assumed.  A text is a sequence of whitespace-separated *)
(* tokens, each token a string in this sense.                              *)
(***************************************************************************)
EXTENDS Integers, Sequences, FiniteSets, TLC

VARIABLES
    clauses,    \* the OrderedDict id -> Clause, as the sequence of its values
    context,    \* ProcessingContext
    counters,   \* ProcessingCounters
    files,      \* the paths of the image files written
    log,        \* the image keys of the warnings printed
    source,     \* the blocks the input document is made of
    todo,       \* blocks process_block still has to visit, in document order
    fed,        \* history: the top-level children convert_file has handed over
    trail,      \* history: the blocks process_block was called on, in order
    roots,      \* the list build_clause_hierarchy returned (clause ids)
    builds,     \* how many times build_clause_hierarchy ran on the map
    chunks,     \* the list flatten_clauses returned
    result,     \* what convert_file returned
    pc,         \* position of the control flow
    schema_files,     \* chunk stage: the schemas main() globbed, in order
    cursor,           \* chunk stage: the index of the next schema file
    pending,          \* chunk stage: the chunks of the schema still to write
    known_chunk_ids,  \* chunk stage: the chunk id index of the schema
    written,          \* chunk stage: the chunk files written, in order
    batch,            \* a batch entry point of the schema stage: its files,
                      \* its position, what it wrote and what it reported
    objects,          \* the objects convert_file allocated, by address
    converters,       \* the calls of convert_file in progress, by document
    call              \* a function applied on its own: argument and value

vars == <<clauses, context, counters, files, log, source, todo, fed, trail,
          roots, builds, chunks, result, pc,
          schema_files, cursor, pending, known_chunk_ids, written,
          batch, objects, converters, call>>

\* the state of schema_to_chunks
chunkVars == <<schema_files, cursor, pending, known_chunk_ids, written>>

\* the state of json_to_schema
schemaVars == <<clauses, context, counters, files, log, source, todo, fed, trail,
                roots, builds, chunks, result>>

\* the state of the batch entry points, of the calls of convert_file in
\* progress and of a function applied on its own
runVars == <<batch, objects, converters, call>>

\* no batch runs, no call is in progress
RunIdle ==
    /\ batch = <<>>
    /\ objects = <<>>
    /\ converters = <<>>
    /\ call = <<>>

\* schema_to_chunks has not run
ChunkStageIdle ==
    /\ schema_files = <<>>
    /\ cursor = 1
    /\ pending = <<>>
    /\ known_chunk_ids = {}
    /\ written = <<>>

(***************************************************************************)
(* Bounds of the model.                                                    *)
(***************************************************************************)
MaxFeeds   == 4     \* top-level children of an input document
MaxWords   == 3     \* tokens of a text drawn for requirement extraction
MaxClauses == 4     \* clauses of a clause map drawn for the hierarchy builder
MaxBuilds  == 2     \* runs of build_clause_hierarchy on one map
MaxSchemas == 2     \* schema files of one run of the chunk stage
MaxFill    == 4     \* bytes between the head and the tail of an image payload
MaxDocs    == 2     \* calls of convert_file in progress at once
MaxFiles   == 3     \* input files of one batch of the schema stage
MaxScanned == 3     \* blocks of the pages of a document extract_scope scans
MaxRefs    == 3     \* raw references handed to resolve_internal_references
MaxPdfs    == 2     \* PDFs in the input directory of run_marker
MaxCalls   == 2     \* calls of run_marker in progress at once

(***************************************************************************)
(* Characters and strings.                                                 *)
(***************************************************************************)
\* Python's None.  A one-element tuple holding a word, so it differs from
\* every string (a tuple of single characters), the empty string included.
None == <<"None">>

\* The characters the model uses, in code-point order.
CharOrder ==
    <<" ", "(", ")", "+", ",", "-", ".", "/", "0", "1", "2", "3", "4", "5", "6", "7", "8", "9", ":",
      "<", "=", ">",
      "A", "B", "C", "D", "E", "F", "G", "H", "I", "J", "K", "L", "M", "N",
      "O", "P", "Q", "R", "S", "T", "U", "V", "W", "X", "Y", "Z", "_",
      "a", "b", "c", "d", "e", "f", "g", "h", "i", "j", "k", "l", "m", "n",
      "o", "p", "q", "r", "s", "t", "u", "v", "w", "x", "y", "z">>

Ord(c) == CHOOSE i \in 1..Len(CharOrder) : CharOrder[i] = c

IsDigit(c) == c \in {"0", "1", "2", "3", "4", "5", "6", "7", "8", "9"}

DigitVal(c) == Ord(c) - Ord("0")

UpperChars == {CharOrder[i] : i \in Ord("A")..Ord("Z")}
LowerChars == {CharOrder[i] : i \in Ord("a")..Ord("z")}

\* str.lower() on one character
LowerChar(c) == IF c \in UpperChars THEN CharOrder[Ord(c) - Ord("A") + Ord("a")] ELSE c

\* str.lower()
Lower(s) == [i \in 1..Len(s) |-> LowerChar(s[i])]

Range(s) == {s[i] : i \in 1..Len(s)}

\* Python's < on str: lexicographic by code point, a proper prefix is smaller.
RECURSIVE StrLess(_, _)
StrLess(a, b) ==
    IF b = <<>> THEN FALSE
    ELSE IF a = <<>> THEN TRUE
    ELSE IF a[1] # b[1] THEN Ord(a[1]) < Ord(b[1])
    ELSE StrLess(Tail(a), Tail(b))

\* Python's < on lists of int.
RECURSIVE IntListLess(_, _)
IntListLess(a, b) ==
    IF b = <<>> THEN FALSE
    ELSE IF a = <<>> THEN TRUE
    ELSE IF a[1] # b[1] THEN a[1] < b[1]
    ELSE IntListLess(Tail(a), Tail(b))

\* str.split(sep) for a one-character separator: "6..1" gives "6", "", "1".
RECURSIVE SplitAcc(_, _, _)
SplitAcc(s, sep, cur) ==
    IF s = <<>> THEN <<cur>>
    ELSE IF s[1] = sep THEN <<cur>> \o SplitAcc(Tail(s), sep, <<>>)
    ELSE SplitAcc(Tail(s), sep, Append(cur, s[1]))

Split(s, sep) == SplitAcc(s, sep, <<>>)

\* sep.join(parts)
RECURSIVE Join(_, _)
Join(parts, sep) ==
    IF parts = <<>> THEN <<>>
    ELSE IF Len(parts) = 1 THEN parts[1]
    ELSE parts[1] \o <<sep>> \o Join(Tail(parts), sep)

\* int(s) for a string of decimal digits
RECURSIVE ToIntAcc(_, _)
ToIntAcc(s, acc) ==
    IF s = <<>> THEN acc ELSE ToIntAcc(Tail(s), 10 * acc + DigitVal(s[1]))

ToInt(s) == ToIntAcc(s, 0)

\* int(s) raises ValueError unless s is a non-empty run of digits
IsIntLiteral(s) == s # <<>> /\ \A i \in 1..Len(s) : IsDigit(s[i])

(***************************************************************************)
(* Clauses.                                                                *)
(***************************************************************************)
\* Clause(id=..., title=...) with the dataclass defaults.  children holds the
\* identifiers of the child objects: identifiers are the keys of the map.
NewClause(id, title) ==
    [id |-> id, title |-> title, parent_id |-> None, children |-> <<>>,
     content |-> <<>>, tables |-> <<>>, figures |-> <<>>,
     requirements |-> <<>>,
     references |-> [internal |-> <<>>, external |-> <<>>]]

ClauseIds(cs) == {cs[i].id : i \in 1..Len(cs)}

\* the position of key cid in the map
IndexOf(cs, cid) == CHOOSE i \in 1..Len(cs) : cs[i].id = cid

\* clauses[cid]
ClauseAt(cs, cid) == cs[IndexOf(cs, cid)]

(***************************************************************************)
(* build_clause_hierarchy.                                                 *)
(***************************************************************************)
\* A mutated parent rule: an identifier is its own parent.
ParentIdSelf(cid) == cid

\* A mutated parent rule: drops the first segment instead of the last.
ParentIdDropFirst(cid) ==
    LET parts == Split(cid, ".") IN
    IF IsDigit(cid[1])
    THEN IF Len(parts) > 1 THEN Join(Tail(parts), ".") ELSE None
    ELSE IF "." \in Range(cid) THEN parts[1] ELSE None

\* A mutated parent rule: the last segment is dropped from every
\* identifier, annex identifiers included.
ParentIdDropLast(cid) ==
    LET parts == Split(cid, ".") IN
    IF Len(parts) > 1 THEN Join(SubSeq(parts, 1, Len(parts) - 1), ".") ELSE None

\* The parent identifier the loop body computes for cid, None when the body
\* computes none (a single numeric segment, or a non-numeric id without dot).
ParentId(cid) ==
    LET parts == Split(cid, ".") IN
    IF IsDigit(cid[1])
    THEN IF Len(parts) > 1 THEN Join(SubSeq(parts, 1, Len(parts) - 1), ".") ELSE None
    ELSE IF "." \in Range(cid) THEN parts[1] ELSE None

\* A mutated link: appends the child without the membership test.
LinkChildUnguarded(cs, cid, parent_id) ==
    LET p == IndexOf(cs, parent_id)
        c == IndexOf(cs, cid) IN
    [cs EXCEPT ![p].children = Append(@, cid), ![c].parent_id = parent_id]

\* if clause not in parent.children: parent.children.append(clause);
\*                                   clause.parent_id = parent_id
LinkChild(cs, cid, parent_id) ==
    LET p == IndexOf(cs, parent_id)
        c == IndexOf(cs, cid) IN
    IF cid \in Range(cs[p].children) THEN cs
    ELSE [cs EXCEPT ![p].children = Append(@, cid), ![c].parent_id = parent_id]

\* the for loop over clauses.items(), from position i on
RECURSIVE LinkFrom(_, _)
LinkFrom(cs, i) ==
    IF i > Len(cs) THEN cs
    ELSE LET cid == cs[i].id
             parent_id == ParentId(cid) IN
         IF parent_id # None /\ parent_id \in ClauseIds(cs)
         THEN LinkFrom(LinkChild(cs, cid, parent_id), i + 1)
         ELSE LinkFrom(cs, i + 1)

\* A mutated root filter: every clause is a root.
RootCandidatesAll(cs) == [i \in 1..Len(cs) |-> cs[i].id]

\* roots = [c for cid, c in clauses.items() if cid not in child_ids]
RootCandidates(cs) ==
    LET child_ids == UNION {Range(cs[i].children) : i \in 1..Len(cs)}
        F[i \in 0..Len(cs)] ==
            IF i = 0 THEN <<>>
            ELSE IF cs[i].id \in child_ids THEN F[i - 1]
            ELSE Append(F[i - 1], cs[i].id)
    IN F[Len(cs)]

\* A mutated sort key: every identifier is compared as a string.
SortKeyLexical(cid) == <<1, cid>>

\* sort_key(clause): <<0, list of ints>> or <<1, id>>
SortKey(cid) ==
    IF IsDigit(cid[1])
    THEN LET parts == Split(cid, ".") IN
         IF \A i \in 1..Len(parts) : IsIntLiteral(parts[i])
         THEN <<0, [i \in 1..Len(parts) |-> ToInt(parts[i])]>>
         ELSE <<0, <<0>>>>
    ELSE <<1, cid>>

\* Python's < on the key tuples
KeyLess(a, b) ==
    IF a[1] # b[1] THEN a[1] < b[1]
    ELSE IF a[1] = 0 THEN IntListLess(a[2], b[2])
    ELSE StrLess(a[2], b[2])

\* list.sort(key=sort_key): a stable sort, here by insertion
RECURSIVE InsertByKey(_, _)
InsertByKey(sorted, cid) ==
    IF sorted = <<>> THEN <<cid>>
    ELSE IF KeyLess(SortKey(cid), SortKey(sorted[1])) THEN <<cid>> \o sorted
    ELSE <<sorted[1]>> \o InsertByKey(Tail(sorted), cid)

RECURSIVE SortRoots(_)
SortRoots(ids) ==
    IF ids = <<>> THEN <<>>
    ELSE InsertByKey(SortRoots(SubSeq(ids, 1, Len(ids) - 1)), ids[Len(ids)])

\* build_clause_hierarchy: the map as it leaves it, and the list it returns
BuildClauseHierarchy(cs) ==
    LET linked == LinkFrom(cs, 1) IN
    [clauses |-> linked, roots |-> SortRoots(RootCandidates(linked))]

(***************************************************************************)
(* Clause.to_dict and flatten_clauses.                                     *)
(***************************************************************************)
\* Clause._table_to_dict
TableToDict(t) ==
    IF t.html # <<>> THEN [number |-> t.number, caption |-> t.caption, html |-> t.html]
    ELSE [number |-> t.number, caption |-> t.caption]

\* Clause._figure_to_dict
FigureToDict(f) ==
    [number |-> f.number, path |-> f.path, format |-> f.format,
     caption |-> f.caption, size_bytes |-> f.size_bytes]

\* Clause.to_dict
ToDict(c, doc_id) ==
    [id |-> c.id, document_id |-> doc_id, title |-> c.title,
     parent_id |-> c.parent_id,
     content |-> [i \in 1..Len(c.content) |->
                     [type |-> c.content[i].type, text |-> c.content[i].text]],
     tables |-> [i \in 1..Len(c.tables) |-> TableToDict(c.tables[i])],
     figures |-> [i \in 1..Len(c.figures) |-> FigureToDict(c.figures[i])],
     requirements |-> [i \in 1..Len(c.requirements) |->
                          [type |-> c.requirements[i].type,
                           keyword |-> c.requirements[i].keyword,
                           text |-> c.requirements[i].text]],
     references |-> c.references, children_ids |-> c.children]

\* A mutated process_clause: the children of a clause are emitted after the
\* clauses that follow it in the list.
RECURSIVE FlattenListChildrenLast(_, _, _, _)
FlattenListChildrenLast(cs, ids, doc_id, depth) ==
    IF ids = <<>> \/ depth = 0 THEN <<>>
    ELSE LET c == ClauseAt(cs, ids[1]) IN
         <<ToDict(c, doc_id)>>
             \o FlattenListChildrenLast(cs, Tail(ids), doc_id, depth)
             \o FlattenListChildrenLast(cs, c.children, doc_id, depth - 1)

\* process_clause for each clause of the list ids, in order; depth bounds the
\* recursion, which in a forest never exceeds the number of clauses
RECURSIVE FlattenList(_, _, _, _)
FlattenList(cs, ids, doc_id, depth) ==
    IF ids = <<>> \/ depth = 0 THEN <<>>
    ELSE LET c == ClauseAt(cs, ids[1]) IN
         <<ToDict(c, doc_id)>>
             \o FlattenList(cs, c.children, doc_id, depth - 1)
             \o FlattenList(cs, Tail(ids), doc_id, depth)

FlattenClauses(cs, rts, doc_id) == FlattenList(cs, rts, doc_id, Len(cs) + 1)

(***************************************************************************)
(* Texts.  A text is the sequence of its whitespace-separated tokens; the  *)
(* empty text is the empty sequence.  An html value is a text some of      *)
(* whose tokens are tags.                                                  *)
(***************************************************************************)
\* None where a text is expected (a title, a caption)
NoneText == <<None>>

IsWordChar(c) == IsDigit(c) \/ c \in UpperChars \/ c \in LowerChars \/ c = "_"

\* HTML_TAG_RE, <[^>]+>, on one token
IsTag(tok) ==
    /\ Len(tok) >= 3
    /\ tok[1] = "<"
    /\ tok[Len(tok)] = ">"
    /\ \A i \in 2..(Len(tok) - 1) : tok[i] # ">"

\* strip_html: the tags removed, the surrounding whitespace stripped
StripHtml(html) == SelectSeq(html, LAMBDA tok : ~IsTag(tok))

\* ([A-Z]|\d+)(?:\.(\d+))* with IGNORECASE, matching the whole token
IsClauseNumber(tok) ==
    LET parts == Split(tok, ".") IN
    /\ tok # <<>>
    /\ \/ (Len(parts[1]) = 1 /\ parts[1][1] \in UpperChars \cup LowerChars)
       \/ IsIntLiteral(parts[1])
    /\ \A i \in 2..Len(parts) : IsIntLiteral(parts[i])

\* extract_clause_info: None, or the pair (clause_id, title)
ExtractClauseInfo(text) ==
    IF text = <<>> THEN None
    ELSE IF Len(text) >= 2 /\ IsClauseNumber(text[1])
         THEN <<text[1], Tail(text)>>            \* CLAUSE_WITH_TITLE_RE
    ELSE IF Len(text) = 1 /\ IsClauseNumber(text[1])
         THEN <<text[1], NoneText>>              \* CLAUSE_NUM_ONLY_RE
    ELSE None

\* the length of the longest run of digits of tok starting at position i
RECURSIVE DigitRun(_, _)
DigitRun(tok, i) ==
    IF i <= Len(tok) /\ IsDigit(tok[i]) THEN 1 + DigitRun(tok, i + 1) ELSE 0

\* the end of the longest match of \d+(?:\.\d+)* starting at position i of
\* tok, 0 when there is none
RECURSIVE DottedEnd(_, _)
DottedEnd(tok, i) ==
    LET n == DigitRun(tok, i) IN
    IF n = 0 THEN 0
    ELSE LET e == i + n - 1 IN
         IF e + 1 <= Len(tok) /\ tok[e + 1] = "." /\ DigitRun(tok, e + 2) > 0
         THEN DottedEnd(tok, e + 2)
         ELSE e

\* group 1 of [A-Z]?\d+(?:\.\d+)* (IGNORECASE) matched at the start of tok,
\* None when it does not match
NumberPrefix(tok) ==
    IF tok = <<>> THEN None
    ELSE IF tok[1] \in UpperChars \cup LowerChars /\ DottedEnd(tok, 2) > 0
         THEN SubSeq(tok, 1, DottedEnd(tok, 2))
    ELSE IF DottedEnd(tok, 1) > 0 THEN SubSeq(tok, 1, DottedEnd(tok, 1))
    ELSE None

\* whether token tok ends with the word w, w being a whole word (\bw at its
\* start), compared without case
EndsWithWord(tok, w) ==
    /\ Len(tok) >= Len(w)
    /\ Lower(SubSeq(tok, Len(tok) - Len(w) + 1, Len(tok))) = w
    /\ (Len(tok) > Len(w) => ~IsWordChar(tok[Len(tok) - Len(w)]))

\* the first match of \b(w1|w2|..)\s+([A-Z]?\d+(?:\.\d+)*) in text, for the
\* words ws: its group, None when there is no match
RECURSIVE FirstNumberAfter(_, _, _)
FirstNumberAfter(text, ws, i) ==
    IF i >= Len(text) THEN None
    ELSE IF (\E w \in ws : EndsWithWord(text[i], w)) /\ NumberPrefix(text[i + 1]) # None
         THEN NumberPrefix(text[i + 1])
    ELSE FirstNumberAfter(text, ws, i + 1)

W_table  == <<"t", "a", "b", "l", "e">>
W_figure == <<"f", "i", "g", "u", "r", "e">>
W_fig    == <<"f", "i", "g">>
W_figdot == <<"f", "i", "g", ".">>

\* extract_table_number, TABLE_REF_RE.search
ExtractTableNumber(caption) ==
    IF caption = <<>> THEN None ELSE FirstNumberAfter(caption, {W_table}, 1)

\* extract_figure_number, FIGURE_REF_RE.search
ExtractFigureNumber(caption) ==
    IF caption = <<>> THEN None
    ELSE FirstNumberAfter(caption, {W_figure, W_fig, W_figdot}, 1)

(***************************************************************************)
(* extract_requirements.                                                   *)
(***************************************************************************)
W_shall  == <<"s", "h", "a", "l", "l">>
W_not    == <<"n", "o", "t">>
W_should == <<"s", "h", "o", "u", "l", "d">>
W_may    == <<"m", "a", "y">>
W_shall_not == W_shall \o <<" ">> \o W_not

T_mandatory      == <<"m", "a", "n", "d", "a", "t", "o", "r", "y">>
T_prohibition    == <<"p", "r", "o", "h", "i", "b", "i", "t", "i", "o", "n">>
T_recommendation == <<"r", "e", "c", "o", "m", "m", "e", "n", "d", "a", "t", "i", "o", "n">>
T_permission     == <<"p", "e", "r", "m", "i", "s", "s", "i", "o", "n">>

\* requirement_map.get(keyword)
RequirementMap(keyword) ==
    IF keyword = W_shall_not THEN T_prohibition
    ELSE IF keyword = W_shall THEN T_mandatory
    ELSE IF keyword = W_should THEN T_recommendation
    ELSE IF keyword = W_may THEN T_permission
    ELSE None

\* the end of the run of word characters of tok that starts at position i
RECURSIVE WordEnd(_, _)
WordEnd(tok, i) ==
    IF i + 1 <= Len(tok) /\ IsWordChar(tok[i + 1]) THEN WordEnd(tok, i + 1) ELSE i

\* the words of a token (its maximal runs of word characters), lowercased,
\* each with the positions it spans
RECURSIVE WordsFrom(_, _)
WordsFrom(tok, i) ==
    IF i > Len(tok) THEN <<>>
    ELSE IF ~IsWordChar(tok[i]) THEN WordsFrom(tok, i + 1)
    ELSE LET e == WordEnd(tok, i) IN
         <<[s |-> Lower(SubSeq(tok, i, e)), first |-> i, last |-> e]>>
             \o WordsFrom(tok, e + 1)

Words(tok) == WordsFrom(tok, 1)

\* A mutated alternation: "shall" is tried before "shall not".
KeywordAtShallFirst(text, i, w) ==
    IF w.s \in {W_shall, W_should, W_may} THEN w.s ELSE None

\* What REQ_RE matches at word w of token i, None when it does not match
\* there.  The alternation tries "shall not" first: the word is the last of
\* its token and the next token starts with the whole word "not".
KeywordAt(text, i, w) ==
    IF w.s = W_shall
    THEN IF /\ w.last = Len(text[i])
            /\ i < Len(text)
            /\ Words(text[i + 1]) # <<>>
            /\ Words(text[i + 1])[1].first = 1
            /\ Words(text[i + 1])[1].s = W_not
         THEN W_shall_not
         ELSE W_shall
    ELSE IF w.s \in {W_should, W_may} THEN w.s
    ELSE None

\* the keywords REQ_RE.finditer yields over token i from its j-th word on,
\* lowercased, in order
RECURSIVE TokenKeywords(_, _, _)
TokenKeywords(text, i, j) ==
    LET ws == Words(text[i]) IN
    IF j > Len(ws) THEN <<>>
    ELSE LET k == KeywordAt(text, i, ws[j]) IN
         (IF k = None THEN <<>> ELSE <<k>>) \o TokenKeywords(text, i, j + 1)

\* the keywords REQ_RE.finditer yields over the text from token i on
RECURSIVE TextKeywords(_, _)
TextKeywords(text, i) ==
    IF i > Len(text) THEN <<>>
    ELSE TokenKeywords(text, i, 1) \o TextKeywords(text, i + 1)

\* A mutated loop: no break, the last match wins.
ExtractRequirementsLast(text) ==
    LET ks == TextKeywords(text, 1) IN
    IF text = <<>> \/ ks = <<>> THEN <<>>
    ELSE <<[type |-> RequirementMap(ks[Len(ks)]), keyword |-> ks[Len(ks)], text |-> text]>>

\* extract_requirements: the loop appends for the first match whose keyword
\* the map knows, and breaks
ExtractRequirements(text) ==
    LET ks == SelectSeq(TextKeywords(text, 1), LAMBDA k : RequirementMap(k) # None) IN
    IF text = <<>> \/ ks = <<>> THEN <<>>
    ELSE <<[type |-> RequirementMap(ks[1]), keyword |-> ks[1], text |-> text]>>

(***************************************************************************)
(* extract_references (schema stage).                                      *)
(***************************************************************************)
W_clause    == <<"c", "l", "a", "u", "s", "e">>
W_section   == <<"s", "e", "c", "t", "i", "o", "n">>
W_paragraph == <<"p", "a", "r", "a", "g", "r", "a", "p", "h">>

P_clause == W_clause \o <<":">>
P_table  == W_table \o <<":">>
P_figure == W_figure \o <<":">>

\* the groups of every match of \b(w1|w2|..)\s+([A-Z]?\d+(?:\.\d+)*) in text
NumbersAfter(text, ws) ==
    {NumberPrefix(text[i + 1]) : i \in {j \in 1..(Len(text) - 1) :
        /\ \E w \in ws : EndsWithWord(text[j], w)
        /\ NumberPrefix(text[j + 1]) # None}}

\* extract_references: the set handed to list(); its order is the set's
ExtractReferences(text) ==
    IF text = <<>> THEN {}
    ELSE {P_clause \o n : n \in NumbersAfter(text, {W_clause, W_section, W_paragraph})}
         \cup {P_table \o n : n \in NumbersAfter(text, {W_table})}
         \cup {P_figure \o n : n \in NumbersAfter(text, {W_figure, W_fig, W_figdot})}

\* the lists list(set(...)) can be: every order of the set
Orderings(S) ==
    {f \in [1..Cardinality(S) -> S] : \A x \in S : \E i \in DOMAIN f : f[i] = x}

StartsWith(s, prefix) ==
    Len(s) >= Len(prefix) /\ SubSeq(s, 1, Len(prefix)) = prefix

\* what process_text appends to references["internal"] for the list refs
RECURSIVE InternalRefs(_)
InternalRefs(refs) ==
    IF refs = <<>> THEN <<>>
    ELSE LET ref == refs[1] IN
         (IF StartsWith(ref, P_clause)
              THEN <<SubSeq(ref, Len(P_clause) + 1, Len(ref))>>
          ELSE IF StartsWith(ref, P_table) \/ StartsWith(ref, P_figure) THEN <<ref>>
          ELSE <<>>) \o InternalRefs(Tail(refs))

(***************************************************************************)
(* Images: base64, format detection, file names.                           *)
(***************************************************************************)
\* the value of a character of the base64 alphabet
B64Value(c) ==
    IF c \in UpperChars THEN Ord(c) - Ord("A")
    ELSE IF c \in LowerChars THEN Ord(c) - Ord("a") + 26
    ELSE IF IsDigit(c) THEN DigitVal(c) + 52
    ELSE IF c = "+" THEN 62
    ELSE 63

IsB64Char(c) == c \in UpperChars \cup LowerChars \/ IsDigit(c) \/ c \in {"+", "/"}

\* the bytes of the sextets v, whole quads only
RECURSIVE QuadBytes(_)
QuadBytes(v) ==
    IF Len(v) < 4 THEN <<>>
    ELSE <<v[1] * 4 + (v[2] \div 16),
           (v[2] % 16) * 16 + (v[3] \div 4),
           (v[3] % 4) * 64 + v[4]>> \o QuadBytes(SubSeq(v, 5, Len(v)))

\* base64.b64decode(s) for payloads whose padding, if any, ends them:
\* characters outside the alphabet are discarded, and a last group that is
\* not a whole quad after padding raises binascii.Error (ok = FALSE)
B64Decode(s) ==
    LET body == SelectSeq(s, IsB64Char)
        v    == [i \in 1..Len(body) |-> B64Value(body[i])]
        pads == Cardinality({i \in 1..Len(s) : s[i] = "="})
        r    == Len(v) % 4
        full == QuadBytes(SubSeq(v, 1, Len(v) - r))
        last == SubSeq(v, Len(v) - r + 1, Len(v))
    IN  IF r = 0 THEN [ok |-> TRUE, data |-> full]
        ELSE IF r = 2 /\ pads >= 2
             THEN [ok |-> TRUE, data |-> full \o <<last[1] * 4 + (last[2] \div 16)>>]
        ELSE IF r = 3 /\ pads >= 1
             THEN [ok |-> TRUE,
                   data |-> full \o <<last[1] * 4 + (last[2] \div 16),
                                      (last[2] % 16) * 16 + (last[3] \div 4)>>]
        ELSE [ok |-> FALSE, data |-> <<>>]

E_png  == <<".", "p", "n", "g">>
E_jpg  == <<".", "j", "p", "g">>
E_gif  == <<".", "g", "i", "f">>
E_bmp  == <<".", "b", "m", "p">>
E_webp == <<".", "w", "e", "b", "p">>
E_bin  == <<".", "b", "i", "n">>

\* format_signatures, in the order the loop tries them
FormatSignatures ==
    << <<<<137, 80, 78, 71>>, E_png>>,
       <<<<255, 216, 255>>, E_jpg>>,
       <<<<71, 73, 70, 56>>, E_gif>>,
       <<<<66, 77>>, E_bmp>> >>

\* A mutated detection: RIFF at offset 0 is enough for .webp.
DetectImageFormatRiffOnly(data) ==
    LET hits == {i \in 1..Len(FormatSignatures) : StartsWith(data, FormatSignatures[i][1])} IN
    IF data = <<>> THEN E_bin
    ELSE IF hits # {}
         THEN FormatSignatures[CHOOSE i \in hits : \A j \in hits : i <= j][2]
    ELSE IF StartsWith(data, <<82, 73, 70, 70>>) THEN E_webp
    ELSE E_bin

\* detect_image_format
DetectImageFormat(data) ==
    LET hits == {i \in 1..Len(FormatSignatures) : StartsWith(data, FormatSignatures[i][1])} IN
    IF data = <<>> THEN E_bin
    ELSE IF hits # {}
         THEN FormatSignatures[CHOOSE i \in hits : \A j \in hits : i <= j][2]
    ELSE IF /\ Len(data) >= 12
            /\ SubSeq(data, 1, 4) = <<82, 73, 70, 70>>
            /\ SubSeq(data, 9, 12) = <<87, 69, 66, 80>>
         THEN E_webp
    ELSE E_bin

\* str(n) for n >= 0
RECURSIVE IntToStr(_)
IntToStr(n) ==
    IF n < 10 THEN <<CharOrder[Ord("0") + n]>>
    ELSE IntToStr(n \div 10) \o <<CharOrder[Ord("0") + (n % 10)]>>

\* s.replace(a, b) for single characters
ReplaceChar(s, a, b) == [i \in 1..Len(s) |-> IF s[i] = a THEN b ELSE s[i]]

\* s.lstrip(c)
RECURSIVE LStrip(_, _)
LStrip(s, c) == IF s # <<>> /\ s[1] = c THEN LStrip(Tail(s), c) ELSE s

\* s.rstrip(c)
RECURSIVE RStrip(_, _)
RStrip(s, c) ==
    IF s # <<>> /\ s[Len(s)] = c THEN RStrip(SubSeq(s, 1, Len(s) - 1), c) ELSE s

\* img_key.replace("/", "_").strip("_").lower()
ImgRef(img_key) == Lower(RStrip(LStrip(ReplaceChar(img_key, "/", "_"), "_"), "_"))

\* the document of the schema stage model, path.stem
DocId == <<"d", "o", "c">>

S_output_images == <<"o", "u", "t", "p", "u", "t", "_", "i", "m", "a", "g", "e", "s">>
S_misc   == <<"m", "i", "s", "c">>
S_figure == <<"f", "i", "g", "u", "r", "e">>

\* img_root relative to OUTPUT_DIR: output_images/<doc_id>
ImgRoot(doc_id) == S_output_images \o <<"/">> \o doc_id

\* clause_dir / fname of _save_clause_image, relative to OUTPUT_DIR
ClauseImagePath(doc_id, cid, n, img_ref, ext) ==
    ImgRoot(doc_id) \o <<"/">> \o ReplaceChar(cid, ".", "_") \o <<"/">>
        \o S_figure \o <<"_">> \o IntToStr(n) \o <<"_">> \o img_ref \o ext

\* A mutated file name: the index is left out.
MiscImagePathNoIndex(doc_id, n, img_ref, ext) ==
    ImgRoot(doc_id) \o <<"/">> \o S_misc \o <<"/">>
        \o S_misc \o <<"_">> \o img_ref \o ext

\* misc_img_dir / fname of _save_misc_image, relative to OUTPUT_DIR
MiscImagePath(doc_id, n, img_ref, ext) ==
    ImgRoot(doc_id) \o <<"/">> \o S_misc \o <<"/">>
        \o S_misc \o <<"_">> \o IntToStr(n) \o <<"_">> \o img_ref \o ext

(***************************************************************************)
(* BlockProcessor.  A handler maps the processor's state m (the clause     *)
(* map, the context, the counters, the document of its image directories,  *)
(* the files written and the warnings printed) to the state it leaves.     *)
(***************************************************************************)
NewContext ==
    [current_clause_id |-> None, pending_number |-> None, pending_caption |-> NoneText]

NewCounters ==
    [total_images |-> 0, clause_images |-> 0, misc_images |-> 0,
     misc_image_counter |-> 0, total_tables |-> 0,
     figure_counters |-> <<>>, misc_image_metadata |-> <<>>]

\* _has_current_clause
HasCurrentClause(m) ==
    /\ m.context.current_clause_id # None
    /\ m.context.current_clause_id \in ClauseIds(m.clauses)

\* _add_to_current_clause_content
\* A mutated helper: the item goes to the first clause of the map, whichever
\* clause is current.
AddToFirstClauseContent(m, item) ==
    IF HasCurrentClause(m)
    THEN [m EXCEPT !.clauses[1].content = Append(@, item)]
    ELSE m

AddToCurrentClauseContent(m, item) ==
    IF HasCurrentClause(m)
    THEN [m EXCEPT !.clauses[IndexOf(m.clauses, m.context.current_clause_id)].content
                       = Append(@, item)]
    ELSE m

\* _create_clause, with reset_pending
\* A mutated _create_clause: the clause is created anew every time, in the
\* place of the clause that had the identifier.
CreateClauseAnew(m, clause_id, title) ==
    [m EXCEPT
       !.clauses = IF clause_id \in ClauseIds(m.clauses)
                   THEN [@ EXCEPT ![IndexOf(m.clauses, clause_id)] =
                                      NewClause(clause_id, title)]
                   ELSE Append(@, NewClause(clause_id, title)),
       !.context = [current_clause_id |-> clause_id, pending_number |-> None,
                    pending_caption |-> NoneText]]

\* A mutated _create_clause: a clause that is current stays current.
CreateClauseKeepCurrent(m, clause_id, title) ==
    [m EXCEPT
       !.clauses = IF clause_id \in ClauseIds(m.clauses) THEN @
                   ELSE Append(@, NewClause(clause_id, title)),
       !.context = [current_clause_id |->
                        IF @.current_clause_id # None THEN @.current_clause_id
                        ELSE clause_id,
                    pending_number |-> None,
                    pending_caption |-> NoneText]]

\* A mutated _create_clause: the clause becomes current without being
\* entered in the map.
CreateClauseUnregistered(m, clause_id, title) ==
    [m EXCEPT
       !.context = [current_clause_id |-> clause_id, pending_number |-> None,
                    pending_caption |-> NoneText]]

\* A mutated _create_clause: the pending number outlives the opening of a
\* clause.
CreateClauseKeepPending(m, clause_id, title) ==
    [m EXCEPT
       !.clauses = IF clause_id \in ClauseIds(m.clauses) THEN @
                   ELSE Append(@, NewClause(clause_id, title)),
       !.context = [current_clause_id |-> clause_id,
                    pending_number |-> @.pending_number,
                    pending_caption |-> NoneText]]

CreateClause(m, clause_id, title) ==
    [m EXCEPT
       !.clauses = IF clause_id \in ClauseIds(m.clauses) THEN @
                   ELSE Append(@, NewClause(clause_id, title)),
       !.context = [current_clause_id |-> clause_id, pending_number |-> None,
                    pending_caption |-> NoneText]]

\* A mutated handler: a header that is only an identifier opens the clause
\* at once, without title.
SectionHeaderBareOpens(m, block) ==
    LET text == StripHtml(block.html)
        info == ExtractClauseInfo(text)
    IN  IF text = <<>> THEN m
        ELSE IF info # None
             THEN CreateClause(m, info[1], IF info[2] # NoneText THEN info[2] ELSE <<>>)
        ELSE IF m.context.pending_number # None
             THEN CreateClause(m, m.context.pending_number, text)
        ELSE m

\* A mutated handler: a header that is no structural heading closes the
\* current clause.
SectionHeaderIgnoredCloses(m, block) ==
    LET text == StripHtml(block.html)
        info == ExtractClauseInfo(text)
    IN  IF text = <<>> THEN m
        ELSE IF info # None
             THEN IF info[2] # NoneText
                  THEN CreateClause(m, info[1], info[2])
                  ELSE [m EXCEPT !.context.pending_number = info[1]]
        ELSE IF m.context.pending_number # None
             THEN CreateClause(m, m.context.pending_number, text)
        ELSE [m EXCEPT !.context.current_clause_id = None]

\* A mutated handler: a header without identifier is never merged with the
\* pending number.
SectionHeaderNoMerge(m, block) ==
    LET text == StripHtml(block.html)
        info == ExtractClauseInfo(text)
    IN  IF text = <<>> THEN m
        ELSE IF info # None
             THEN IF info[2] # NoneText
                  THEN CreateClause(m, info[1], info[2])
                  ELSE [m EXCEPT !.context.pending_number = info[1]]
        ELSE m

\* process_section_header
SectionHeader(m, block) ==
    LET text == StripHtml(block.html)
        info == ExtractClauseInfo(text)
    IN  IF text = <<>> THEN m
        ELSE IF info # None
             THEN IF info[2] # NoneText
                  THEN CreateClause(m, info[1], info[2])
                  ELSE [m EXCEPT !.context.pending_number = info[1]]
        ELSE IF m.context.pending_number # None
             THEN CreateClause(m, m.context.pending_number, text)
        ELSE m

\* A mutated handler: a caption with a table or figure number is stored as
\* pending and emitted as content as well.
CaptionAlsoEmitted(m, block) ==
    LET text == StripHtml(block.html) IN
    IF text = <<>> THEN m
    ELSE IF ExtractTableNumber(text) # None \/ ExtractFigureNumber(text) # None
         THEN [AddToCurrentClauseContent(m, [type |-> "caption", text |-> text])
                  EXCEPT !.context.pending_caption = text]
    ELSE AddToCurrentClauseContent(m, [type |-> "caption", text |-> text])

\* process_caption
Caption(m, block) ==
    LET text == StripHtml(block.html) IN
    IF text = <<>> THEN m
    ELSE IF ExtractTableNumber(text) # None \/ ExtractFigureNumber(text) # None
         THEN [m EXCEPT !.context.pending_caption = text]
    ELSE AddToCurrentClauseContent(m, [type |-> "caption", text |-> text])

\* A mutated choice of caption: the inline caption is preferred to the
\* pending caption.
CaptionForInlineFirst(m, block) ==
    IF StripHtml(block.caption) # <<>>
    THEN StripHtml(block.caption)
    ELSE IF m.context.pending_caption # NoneText THEN m.context.pending_caption
    ELSE <<>>

\* self.context.pending_caption or strip_html(block.get("caption", ""))
CaptionFor(m, block) ==
    IF m.context.pending_caption # NoneText /\ m.context.pending_caption # <<>>
    THEN m.context.pending_caption
    ELSE StripHtml(block.caption)

\* A mutated handler: only the tables that are attached to a clause are
\* counted.
TableCountedWhenAttached(m, block) ==
    LET caption == CaptionFor(m, block)
        table == [html |-> block.html,
                  number |-> IF caption # <<>> THEN ExtractTableNumber(caption) ELSE None,
                  caption |-> IF caption # <<>> THEN caption ELSE NoneText,
                  rows |-> block.rows]
    IN  IF block.html = <<>> THEN m
        ELSE IF HasCurrentClause(m)
             THEN [m EXCEPT
                     !.counters.total_tables = @ + 1,
                     !.clauses[IndexOf(m.clauses, m.context.current_clause_id)].tables
                         = Append(@, table),
                     !.context.pending_caption = NoneText]
        ELSE [m EXCEPT !.context.pending_caption = NoneText]

\* process_table
Table(m, block) ==
    LET caption == CaptionFor(m, block)
        table == [html |-> block.html,
                  number |-> IF caption # <<>> THEN ExtractTableNumber(caption) ELSE None,
                  caption |-> IF caption # <<>> THEN caption ELSE NoneText,
                  rows |-> block.rows]
        counted == [m EXCEPT !.counters.total_tables = @ + 1]
        attached ==
            IF HasCurrentClause(counted)
            THEN [counted EXCEPT
                    !.clauses[IndexOf(m.clauses, m.context.current_clause_id)].tables
                        = Append(@, table)]
            ELSE counted
    IN  IF block.html = <<>> THEN m
        ELSE [attached EXCEPT !.context.pending_caption = NoneText]

\* the number a FigureEntry carries: a string from the caption, or an int
StrNumber(s) == [is_int |-> FALSE, int |-> 0, str |-> s]
IntNumber(n) == [is_int |-> TRUE, int |-> n, str |-> <<>>]

\* figure_counters.get(cid, 0)
FigureCounter(fc, cid) == IF cid \in DOMAIN fc THEN fc[cid] ELSE 0

\* A mutated _save_clause_image: the number is the counter, whatever the
\* caption says.
SaveClauseImageCounterOnly(m, img_key, data, ext, img_ref, caption, figure_number, write_fails) ==
    LET cid == m.context.current_clause_id
        n == FigureCounter(m.counters.figure_counters, cid) + 1
        fc == [c \in DOMAIN m.counters.figure_counters \cup {cid} |->
                  IF c = cid THEN n ELSE m.counters.figure_counters[c]]
        fpath == ClauseImagePath(m.doc_id, cid, n, img_ref, ext)
        figure == [number |-> IntNumber(n),
                   path |-> fpath, format |-> LStrip(ext, "."),
                   original_key |-> img_key, size_bytes |-> Len(data),
                   caption |-> caption]
        counted == [m EXCEPT !.counters.figure_counters = fc]
    IN  IF write_fails THEN [counted EXCEPT !.log = Append(@, img_key)]
        ELSE [counted EXCEPT
                !.files = @ \cup {fpath},
                !.clauses[IndexOf(m.clauses, cid)].figures = Append(@, figure),
                !.counters.clause_images = @ + 1]

\* A mutated _save_clause_image: the index of the clause advances only
\* once the file is written, so the index of a failed write is used again.
SaveClauseImageCountAfterWrite(m, img_key, data, ext, img_ref, caption, figure_number, write_fails) ==
    LET cid == m.context.current_clause_id
        n == FigureCounter(m.counters.figure_counters, cid) + 1
        fc == [c \in DOMAIN m.counters.figure_counters \cup {cid} |->
                  IF c = cid THEN n ELSE m.counters.figure_counters[c]]
        fpath == ClauseImagePath(m.doc_id, cid, n, img_ref, ext)
        figure == [number |-> IF figure_number # None THEN StrNumber(figure_number)
                              ELSE IntNumber(n),
                   path |-> fpath, format |-> LStrip(ext, "."),
                   original_key |-> img_key, size_bytes |-> Len(data),
                   caption |-> caption]
    IN  IF write_fails THEN [m EXCEPT !.log = Append(@, img_key)]
        ELSE [m EXCEPT
                !.counters.figure_counters = fc,
                !.files = @ \cup {fpath},
                !.clauses[IndexOf(m.clauses, cid)].figures = Append(@, figure),
                !.counters.clause_images = @ + 1]

\* _save_clause_image; write_fails: mkdir or write_bytes raises
SaveClauseImage(m, img_key, data, ext, img_ref, caption, figure_number, write_fails) ==
    LET cid == m.context.current_clause_id
        n == FigureCounter(m.counters.figure_counters, cid) + 1
        fc == [c \in DOMAIN m.counters.figure_counters \cup {cid} |->
                  IF c = cid THEN n ELSE m.counters.figure_counters[c]]
        fpath == ClauseImagePath(m.doc_id, cid, n, img_ref, ext)
        figure == [number |-> IF figure_number # None THEN StrNumber(figure_number)
                              ELSE IntNumber(n),
                   path |-> fpath, format |-> LStrip(ext, "."),
                   original_key |-> img_key, size_bytes |-> Len(data),
                   caption |-> caption]
        counted == [m EXCEPT !.counters.figure_counters = fc]
    IN  IF write_fails THEN [counted EXCEPT !.log = Append(@, img_key)]
        ELSE [counted EXCEPT
                !.files = @ \cup {fpath},
                !.clauses[IndexOf(m.clauses, cid)].figures = Append(@, figure),
                !.counters.clause_images = @ + 1]

\* A mutated _save_misc_image: the image is counted before its file is
\* written, so a failed write is counted as well.
SaveMiscImageCountedFirst(m, img_key, data, ext, img_ref, caption, write_fails) ==
    LET n == m.counters.misc_image_counter + 1
        fpath == MiscImagePath(m.doc_id, n, img_ref, ext)
        meta == [path |-> fpath, caption |-> caption, format |-> LStrip(ext, "."),
                 original_key |-> img_key, size_bytes |-> Len(data)]
        counted == [m EXCEPT !.counters.misc_image_counter = n,
                             !.counters.misc_images = @ + 1]
    IN  IF write_fails THEN [counted EXCEPT !.log = Append(@, img_key)]
        ELSE [counted EXCEPT
                !.files = @ \cup {fpath},
                !.counters.misc_image_metadata = Append(@, meta)]

\* _save_misc_image; write_fails: write_bytes raises
SaveMiscImage(m, img_key, data, ext, img_ref, caption, write_fails) ==
    LET n == m.counters.misc_image_counter + 1
        fpath == MiscImagePath(m.doc_id, n, img_ref, ext)
        meta == [path |-> fpath, caption |-> caption, format |-> LStrip(ext, "."),
                 original_key |-> img_key, size_bytes |-> Len(data)]
        counted == [m EXCEPT !.counters.misc_image_counter = n]
    IN  IF write_fails THEN [counted EXCEPT !.log = Append(@, img_key)]
        ELSE [counted EXCEPT
                !.files = @ \cup {fpath},
                !.counters.misc_images = @ + 1,
                !.counters.misc_image_metadata = Append(@, meta)]

\* A mutated handler: the exception of a payload that cannot be decoded is
\* not caught in time, the image is recorded all the same.
ProcessSingleImageNoCatch(m, img, block, write_fails) ==
    LET dec == B64Decode(img.b64)
        ext == DetectImageFormat(dec.data)
        counted == [m EXCEPT !.counters.total_images = @ + 1]
        caption == CaptionFor(m, block)
        figure_number == IF caption # <<>> THEN ExtractFigureNumber(caption) ELSE None
    IN  IF HasCurrentClause(m)
        THEN SaveClauseImage(counted, img.key, dec.data, ext, ImgRef(img.key),
                             caption, figure_number, FALSE)
        ELSE SaveMiscImage(counted, img.key, dec.data, ext, ImgRef(img.key),
                           caption, FALSE)

\* _process_single_image: every exception of the body is caught and printed
ProcessSingleImage(m, img, block, write_fails) ==
    LET dec == B64Decode(img.b64)
        ext == DetectImageFormat(dec.data)
        counted == [m EXCEPT !.counters.total_images = @ + 1]
        caption == CaptionFor(m, block)
        figure_number == IF caption # <<>> THEN ExtractFigureNumber(caption) ELSE None
    IN  IF img.b64 = <<>> THEN [m EXCEPT !.log = Append(@, img.key)]
        ELSE IF ~dec.ok THEN [m EXCEPT !.log = Append(@, img.key)]
        ELSE IF HasCurrentClause(m)
             THEN SaveClauseImage(counted, img.key, dec.data, ext, ImgRef(img.key),
                                  caption, figure_number, write_fails)
        ELSE SaveMiscImage(counted, img.key, dec.data, ext, ImgRef(img.key),
                           caption, write_fails)

\* the for loop of process_picture over images.items(), from position i on;
\* failing: the positions of the images whose file cannot be written
RECURSIVE ProcessImagesFrom(_, _, _, _)
ProcessImagesFrom(m, block, i, failing) ==
    IF i > Len(block.images) THEN m
    ELSE ProcessImagesFrom(ProcessSingleImage(m, block.images[i], block, i \in failing),
                           block, i + 1, failing)

\* process_picture
Picture(m, block, failing) ==
    IF block.images = <<>> THEN m
    ELSE [ProcessImagesFrom(m, block, 1, failing) EXCEPT
            !.context.pending_caption = NoneText]

\* A mutated process_text: a paragraph ends the wait for the title of a
\* pending number.
TextDropsPending(m, block, refs) ==
    LET text == StripHtml(block.html)
        c == IndexOf(m.clauses, m.context.current_clause_id)
    IN  IF text # <<>> /\ HasCurrentClause(m)
        THEN [m EXCEPT
                !.clauses[c].content = Append(@, [type |-> "paragraph", text |-> text]),
                !.clauses[c].requirements = @ \o ExtractRequirements(text),
                !.clauses[c].references.internal = @ \o InternalRefs(refs),
                !.context.pending_number = None]
        ELSE [m EXCEPT !.context.pending_number = None]

\* process_text; refs: the list extract_references returned
Text(m, block, refs) ==
    LET text == StripHtml(block.html)
        c == IndexOf(m.clauses, m.context.current_clause_id)
    IN  IF text # <<>> /\ HasCurrentClause(m)
        THEN [m EXCEPT
                !.clauses[c].content = Append(@, [type |-> "paragraph", text |-> text]),
                !.clauses[c].requirements = @ \o ExtractRequirements(text),
                !.clauses[c].references.internal = @ \o InternalRefs(refs)]
        ELSE m

\* process_footnote
Footnote(m, block) ==
    LET text == StripHtml(block.html) IN
    IF text # <<>> THEN AddToCurrentClauseContent(m, [type |-> "footnote", text |-> text])
    ELSE m

\* process_list_item
ListItem(m, block) ==
    LET text == StripHtml(block.html)
        c == IndexOf(m.clauses, m.context.current_clause_id)
    IN  IF text # <<>> /\ HasCurrentClause(m)
        THEN [m EXCEPT
                !.clauses[c].content = Append(@, [type |-> "list_item", text |-> text]),
                !.clauses[c].requirements = @ \o ExtractRequirements(text)]
        ELSE m

(***************************************************************************)
(* Input blocks.                                                           *)
(***************************************************************************)
\* a dict node; the fields a handler reads with .get() hold their defaults
Block(block_type, html) ==
    [is_dict |-> TRUE, block_type |-> block_type, html |-> html, caption |-> <<>>,
     images |-> <<>>, rows |-> None, children |-> <<>>]

\* a node that is not a dict (a string, a number, null)
NonDict == [Block("", <<>>) EXCEPT !.is_dict = FALSE]

WithChildren(b, children) == [b EXCEPT !.children = children]
WithImages(b, images) == [b EXCEPT !.images = images]
WithCaption(b, caption) == [b EXCEPT !.caption = caption]

\* tokens of the input documents
K_6     == <<"6">>
K_6_1   == <<"6", ".", "1">>
K_A_2   == <<"A", ".", "2">>
K_3     == <<"3">>
K_2     == <<"2">>
W_Test          == <<"T", "e", "s", "t">>
W_Methods       == <<"M", "e", "t", "h", "o", "d", "s">>
W_Environmental == <<"E", "n", "v", "i", "r", "o", "n", "m", "e", "n", "t", "a", "l">>
W_Tests         == <<"T", "e", "s", "t", "s">>
W_General       == <<"G", "e", "n", "e", "r", "a", "l">>
W_This          == <<"T", "h", "i", "s">>
W_specify       == <<"s", "p", "e", "c", "i", "f", "y">>
W_test          == <<"t", "e", "s", "t">>
W_conditions    == <<"c", "o", "n", "d", "i", "t", "i", "o", "n", "s", ".">>
W_See           == <<"S", "e", "e">>
W_Clause        == <<"C", "l", "a", "u", "s", "e">>
W_and           == <<"a", "n", "d">>
W_Table         == <<"T", "a", "b", "l", "e">>
W_Figure        == <<"F", "i", "g", "u", "r", "e">>
W_Limits        == <<"L", "i", "m", "i", "t", "s">>
W_Setup         == <<"S", "e", "t", "u", "p">>
W_Notes         == <<"N", "o", "t", "e", "s">>
W_Items         == <<"I", "t", "e", "m", "s">>
Tag_open        == <<"<", "p", ">">>
Tag_close       == <<"<", "/", "p", ">">>
Tag_table       == <<"<", "t", "a", "b", "l", "e", ">">>

\* section headers
H_6_1_Test_Methods    == Block("SectionHeader", <<Tag_open, K_6_1, W_Test, W_Methods, Tag_close>>)
H_6_General           == Block("SectionHeader", <<K_6, W_General>>)
H_A_2                 == Block("SectionHeader", <<K_A_2>>)
H_A_2_General         == Block("SectionHeader", <<K_A_2, W_General>>)
H_Environmental_Tests == Block("SectionHeader", <<W_Environmental, W_Tests>>)
H_Empty               == Block("SectionHeader", <<Tag_open, Tag_close>>)

\* text, list item, footnote
T_Shall  == Block("Text", <<W_This, W_clause, W_shall, W_specify, W_test, W_conditions>>)
T_Refs   == Block("Text", <<W_See, W_Clause, K_6_1, W_and, W_Table, K_3>>)
L_Should == Block("ListItem", <<W_Items, W_should, W_not, W_may>>)
L_Refs   == Block("ListItem", <<W_See, W_Clause, K_6_1, W_and, W_Table, K_3>>)
F_Notes  == Block("Footnote", <<W_Notes>>)

\* captions and tables
C_Table_3  == Block("Caption", <<W_Table, K_3, W_Limits>>)
C_Figure_2 == Block("Caption", <<W_Figure, K_2, W_Setup>>)
C_Notes    == Block("Caption", <<W_Notes>>)
Tb_Plain   == Block("Table", <<Tag_table>>)
Tb_Inline  == WithCaption(Block("Table", <<Tag_table>>), <<W_Table, K_2>>)
Tb_Empty   == Block("Table", <<>>)

\* image payloads: base64 of the PNG, JPEG and BMP signatures, a payload
\* whose padding is missing, and an empty payload
B64_png == <<"i", "V", "B", "O", "R", "w", "=", "=">>
B64_jpg == <<"/", "9", "j", "/">>
B64_bmp == <<"Q", "k", "0", "=">>
B64_bad == <<"Q", "k", "0">>
Key_a == <<"/", "p", "a", "g", "e", "/", "0", "/", "P", "i", "c", "/", "1">>
Key_b == <<"/", "p", "a", "g", "e", "/", "0", "/", "P", "i", "c", "/", "2">>

P_Png     == WithImages(Block("Picture", <<>>), <<[key |-> Key_a, b64 |-> B64_png]>>)
P_Bad_Jpg == WithImages(Block("Picture", <<>>),
                        <<[key |-> Key_a, b64 |-> B64_bad], [key |-> Key_b, b64 |-> B64_jpg]>>)
P_Empty_Bmp == WithImages(WithCaption(Block("Picture", <<>>), <<W_Figure, K_3>>),
                        <<[key |-> Key_a, b64 |-> <<>>], [key |-> Key_b, b64 |-> B64_bmp]>>)
P_None    == Block("Picture", <<>>)

\* containers
Page(children)       == WithChildren(Block("Page", <<>>), children)
ListGroup(children)  == WithChildren(Block("ListGroup", <<>>), children)
PageHeader(children) == WithChildren(Block("PageHeader", <<W_Notes>>), children)
PageFooter(children) == WithChildren(Block("PageFooter", <<W_Notes>>), children)

\* The families of input documents: a document is a sequence of top-level
\* children drawn from one family.
SourceHeaders  == {H_6_1_Test_Methods, H_6_General, H_A_2, H_A_2_General,
                   H_Environmental_Tests, T_Shall, C_Table_3}
SourceText     == {H_6_1_Test_Methods, H_Empty, T_Refs, L_Should, L_Refs, F_Notes}
SourceTables   == {H_6_1_Test_Methods, C_Table_3, C_Notes, Tb_Plain, Tb_Inline, Tb_Empty}
SourcePictures == {H_6_1_Test_Methods, C_Figure_2, P_Png, P_Bad_Jpg, P_Empty_Bmp, P_None}
SourceTrees    == {Page(<<H_6_1_Test_Methods, T_Shall>>),
                   PageHeader(<<T_Refs>>),
                   PageFooter(<<H_6_General>>),
                   ListGroup(<<L_Should, NonDict, WithChildren(T_Shall, <<F_Notes>>)>>),
                   Page(<<ListGroup(<<H_A_2>>), PageHeader(<<>>), H_Environmental_Tests>>),
                   NonDict}
SourceFigures  == {Page(<<H_6_1_Test_Methods, P_Png>>), Page(<<H_6_General, P_Png>>),
                   P_Png}

Sources == {SourceHeaders, SourceText, SourceTables, SourcePictures, SourceTrees,
            SourceFigures}

(***************************************************************************)
(* convert_file: the traversal (process_block) and the construction of     *)
(* the result.                                                             *)
(***************************************************************************)
\* the BlockProcessor of the document DocId: the objects it was given, the
\* document its img_root and misc_img_dir belong to, and around it the
\* files written and the warnings printed
Machine ==
    [clauses |-> clauses, context |-> context, counters |-> counters,
     files |-> files, log |-> log, doc_id |-> DocId]

Install(m) ==
    /\ clauses' = m.clauses
    /\ context' = m.context
    /\ counters' = m.counters
    /\ files' = m.files
    /\ log' = m.log

\* a block without its subtree, as the trail records it
Node(block) == [block EXCEPT !.children = <<>>]

\* A mutated recursion: only the first child is visited.
ChildrenFirstOnly(block) ==
    IF block.children = <<>> THEN <<>> ELSE <<block.children[1]>>

\* the children process_block recurses into, in order
Children(block) == block.children

HandledTypes ==
    {"SectionHeader", "Caption", "Table", "Picture", "Text", "Footnote", "ListItem"}

\* A mutated guard: nothing is skipped as a page header or footer.
IsHeaderFooterNever(block) == FALSE

\* btype in ("PageHeader", "PageFooter")
IsHeaderFooter(block) == block.block_type \in {"PageHeader", "PageFooter"}

\* process_block is called on the head of todo, whose handler is of type t
AtBlock(t) ==
    /\ pc = "process"
    /\ todo # <<>>
    /\ todo[1].is_dict
    /\ ~IsHeaderFooter(todo[1])
    /\ todo[1].block_type = t

\* the recursion into the children, after the handler
Recurse ==
    /\ todo' = Children(todo[1]) \o Tail(todo)
    /\ trail' = Append(trail, Node(todo[1]))
    /\ UNCHANGED <<source, fed, roots, builds, chunks, result, pc>>
    /\ UNCHANGED chunkVars
    /\ UNCHANGED runVars

\* the for loop of convert_file hands the next top-level child over
Feed ==
    /\ pc = "process"
    /\ todo = <<>>
    /\ Len(fed) < MaxFeeds
    /\ \E b \in source :
          /\ todo' = <<b>>
          /\ fed' = Append(fed, b)
    /\ UNCHANGED <<clauses, context, counters, files, log, source, trail, roots,
                   builds, chunks, result, pc>>
    /\ UNCHANGED chunkVars
    /\ UNCHANGED runVars

\* if not isinstance(block, dict): return
SkipNonDict ==
    /\ pc = "process"
    /\ todo # <<>>
    /\ ~todo[1].is_dict
    /\ todo' = Tail(todo)
    /\ trail' = Append(trail, Node(todo[1]))
    /\ UNCHANGED <<clauses, context, counters, files, log, source, fed, roots,
                   builds, chunks, result, pc>>
    /\ UNCHANGED chunkVars
    /\ UNCHANGED runVars

\* if btype in ("PageHeader", "PageFooter"): return
SkipHeaderFooter ==
    /\ pc = "process"
    /\ todo # <<>>
    /\ todo[1].is_dict
    /\ IsHeaderFooter(todo[1])
    /\ todo' = Tail(todo)
    /\ trail' = Append(trail, Node(todo[1]))
    /\ UNCHANGED <<clauses, context, counters, files, log, source, fed, roots,
                   builds, chunks, result, pc>>
    /\ UNCHANGED chunkVars
    /\ UNCHANGED runVars

ProcessSectionHeader ==
    /\ AtBlock("SectionHeader")
    /\ Install(SectionHeader(Machine, todo[1]))
    /\ Recurse

ProcessCaption ==
    /\ AtBlock("Caption")
    /\ Install(Caption(Machine, todo[1]))
    /\ Recurse

ProcessTable ==
    /\ AtBlock("Table")
    /\ Install(Table(Machine, todo[1]))
    /\ Recurse

ProcessPicture ==
    /\ AtBlock("Picture")
    /\ \E failing \in SUBSET (1..Len(todo[1].images)) :
          Install(Picture(Machine, todo[1], failing))
    /\ Recurse

ProcessText ==
    /\ AtBlock("Text")
    /\ \E refs \in Orderings(ExtractReferences(StripHtml(todo[1].html))) :
          Install(Text(Machine, todo[1], refs))
    /\ Recurse

ProcessFootnote ==
    /\ AtBlock("Footnote")
    /\ Install(Footnote(Machine, todo[1]))
    /\ Recurse

ProcessListItem ==
    /\ AtBlock("ListItem")
    /\ Install(ListItem(Machine, todo[1]))
    /\ Recurse

\* handlers.get(btype) is None: no handler runs, the children are visited
ProcessUnhandled ==
    /\ pc = "process"
    /\ todo # <<>>
    /\ todo[1].is_dict
    /\ ~IsHeaderFooter(todo[1])
    /\ todo[1].block_type \notin HandledTypes
    /\ Recurse
    /\ UNCHANGED <<clauses, context, counters, files, log>>

S__misc == <<"_", "m", "i", "s", "c">>
W_Miscellaneous == <<"M", "i", "s", "c", "e", "l", "l", "a", "n", "e", "o", "u", "s">>
W_Images == <<"I", "m", "a", "g", "e", "s">>

\* misc_node
MiscNode(doc_id, cnt) ==
    [id |-> doc_id \o S__misc, document_id |-> doc_id,
     title |-> <<W_Miscellaneous, W_Images>>, parent_id |-> None,
     content |-> <<>>, tables |-> <<>>, figures |-> cnt.misc_image_metadata,
     requirements |-> <<>>, references |-> [internal |-> <<>>, external |-> <<>>],
     children_ids |-> <<>>]

\* A mutated condition: the misc node is appended whatever the counter says.
HasMiscAlways(cnt) == TRUE

\* if counters.misc_images > 0
HasMisc(cnt) == cnt.misc_images > 0

\* the result convert_file builds from the flattened chunks
BuildResult(doc_id, cs, flat, cnt) ==
    [document_id |-> doc_id,
     statistics |->
        [total_images |-> cnt.total_images,
         images_in_clauses |-> cnt.clause_images,
         images_in_misc |-> cnt.misc_images,
         total_tables |-> cnt.total_tables,
         total_clauses |-> Len(cs),
         total_chunks |-> Len(flat) + (IF HasMisc(cnt) THEN 1 ELSE 0)],
     chunks |-> IF HasMisc(cnt) THEN Append(flat, MiscNode(doc_id, cnt)) ELSE flat]

\* the rest of convert_file once every top-level child is processed:
\* build_clause_hierarchy, flatten_clauses, the result
Finish ==
    /\ pc = "process"
    /\ todo = <<>>
    /\ LET h == BuildClauseHierarchy(clauses)
           flat == FlattenClauses(h.clauses, h.roots, DocId)
           res == BuildResult(DocId, h.clauses, flat, counters)
       IN  /\ clauses' = h.clauses
           /\ roots' = h.roots
           /\ builds' = builds + 1
           /\ chunks' = res.chunks
           /\ result' = res
    /\ pc' = "done"
    /\ UNCHANGED <<context, counters, files, log, source, todo, fed, trail>>
    /\ UNCHANGED chunkVars
    /\ UNCHANGED runVars

NoResult == [document_id |-> None, statistics |-> <<>>, chunks |-> <<>>]

Init ==
    /\ clauses = <<>>
    /\ context = NewContext
    /\ counters = NewCounters
    /\ files = {}
    /\ log = <<>>
    /\ source \in Sources
    /\ todo = <<>>
    /\ fed = <<>>
    /\ trail = <<>>
    /\ roots = <<>>
    /\ builds = 0
    /\ chunks = <<>>
    /\ result = NoResult
    /\ pc = "process"
    /\ ChunkStageIdle
    /\ RunIdle

Next ==
    \/ Feed
    \/ SkipNonDict
    \/ SkipHeaderFooter
    \/ ProcessSectionHeader
    \/ ProcessCaption
    \/ ProcessTable
    \/ ProcessPicture
    \/ ProcessText
    \/ ProcessFootnote
    \/ ProcessListItem
    \/ ProcessUnhandled
    \/ Finish

Spec == Init /\ [][Next]_vars

(***************************************************************************)
(* build_clause_hierarchy and flatten_clauses on clause maps of every      *)
(* shape: the map is drawn from the identifiers below, in any insertion    *)
(* order, as process_section_header leaves it (no links yet).              *)
(***************************************************************************)
K_2_ == <<"2">>
K_10 == <<"1", "0">>
K_10_2 == <<"1", "0", ".", "2">>
K_6_1_2 == <<"6", ".", "1", ".", "2">>
K_A == <<"A">>
K_A_2_1 == <<"A", ".", "2", ".", "1">>

HierIds == {K_2_, K_10, K_10_2, K_6, K_6_1, K_6_1_2, K_A, K_A_2, K_A_2_1}

\* the sequences of distinct identifiers of length at most n
RECURSIVE DistinctSeqs(_, _)
DistinctSeqs(S, n) ==
    IF n = 0 THEN {<<>>}
    ELSE LET shorter == DistinctSeqs(S, n - 1) IN
         shorter \cup UNION {{Append(q, x) : x \in S \ Range(q)} : q \in shorter}

InitHier ==
    /\ clauses \in {[i \in 1..Len(ids) |-> NewClause(ids[i], <<W_General>>)] :
                        ids \in DistinctSeqs(HierIds, MaxClauses)}
    /\ context = NewContext
    /\ counters = NewCounters
    /\ files = {}
    /\ log = <<>>
    /\ source = {}
    /\ todo = <<>>
    /\ fed = <<>>
    /\ trail = <<>>
    /\ roots = <<>>
    /\ builds = 0
    /\ chunks = <<>>
    /\ result = NoResult
    /\ pc = "hier"
    /\ ChunkStageIdle
    /\ RunIdle

\* roots = build_clause_hierarchy(clauses)
HierBuild ==
    /\ pc = "hier"
    /\ builds < MaxBuilds
    /\ LET h == BuildClauseHierarchy(clauses) IN
          /\ clauses' = h.clauses
          /\ roots' = h.roots
    /\ builds' = builds + 1
    /\ UNCHANGED <<context, counters, files, log, source, todo, fed, trail,
                   chunks, result, pc>>
    /\ UNCHANGED chunkVars
    /\ UNCHANGED runVars

\* chunks = flatten_clauses(roots, doc_id)
HierFlatten ==
    /\ pc = "hier"
    /\ builds >= 1
    /\ chunks' = FlattenClauses(clauses, roots, DocId)
    /\ pc' = "flat"
    /\ UNCHANGED <<clauses, context, counters, files, log, source, todo, fed,
                   trail, roots, builds, result>>
    /\ UNCHANGED chunkVars
    /\ UNCHANGED runVars

NextHier == HierBuild \/ HierFlatten

SpecHier == InitHier /\ [][NextHier]_vars

(***************************************************************************)
(* Claims about the hierarchy.                                             *)
(***************************************************************************)
\* the positions of the dots of an identifier
DotsOf(id) == {i \in 1..Len(id) : id[i] = "."}

Greatest(S) == CHOOSE x \in S : \A y \in S : y <= x
Least(S) == CHOOSE x \in S : \A y \in S : x <= y

\* The structurally derived parent of an identifier, as the specification
\* words it: the identifier minus its last dot-segment when the first
\* character is a digit, the leading letter segment when it starts with a
\* non-digit and contains a dot; None otherwise.
DerivedParent(id) ==
    IF DotsOf(id) = {} THEN None
    ELSE IF IsDigit(id[1]) THEN SubSeq(id, 1, Greatest(DotsOf(id)) - 1)
    ELSE SubSeq(id, 1, Least(DotsOf(id)) - 1)

\* C1: after build_clause_hierarchy, every clause whose parent_id is set has
\* a parent_id that is a key of the clause map and that equals the
\* structurally derived parent of its identifier.
C1_ParentIsDerivedAndPresent ==
    builds >= 1 =>
        \A i \in 1..Len(clauses) :
            clauses[i].parent_id # None =>
                /\ clauses[i].parent_id \in ClauseIds(clauses)
                /\ clauses[i].parent_id = DerivedParent(clauses[i].id)

\* a built map in which a numeric clause and an annex clause of depth two
\* both have their parent set
C1_Witness ==
    /\ builds >= 1
    /\ \E i, j \in 1..Len(clauses) :
          /\ clauses[i].id = K_6_1 /\ clauses[i].parent_id = K_6
          /\ clauses[j].id = K_A_2_1 /\ clauses[j].parent_id = K_A

\* C2: flatten_clauses(build_clause_hierarchy(clauses)) emits exactly one
\* record per clause of the map: none omitted, none twice.
C2_FlattenVisitsEachClauseOnce ==
    pc = "flat" =>
        /\ Len(chunks) = Len(clauses)
        /\ \A i \in 1..Len(clauses) :
              Cardinality({k \in 1..Len(chunks) : chunks[k].id = clauses[i].id}) = 1

\* a flattened map of three clauses, one a root, one a child, one a
\* grandchild
C2_Witness ==
    /\ pc = "flat"
    /\ Len(clauses) = 3
    /\ \E i, j \in 1..Len(clauses) :
          /\ clauses[i].parent_id # None
          /\ clauses[j].parent_id = clauses[i].id

NoDuplicates(seq) == \A i, j \in 1..Len(seq) : seq[i] = seq[j] => i = j

\* C3: running build_clause_hierarchy again on the already linked map
\* returns the same root list in the same order and leaves every clause's
\* children list and parent_id unchanged; no child is linked to its parent
\* more than once.
C3_RebuildChangesNothing ==
    /\ [][(builds >= 1 /\ builds' = builds + 1)
             => (clauses' = clauses /\ roots' = roots)]_vars
    /\ [](\A i \in 1..Len(clauses) : NoDuplicates(clauses[i].children))

\* the builder has run twice on a map in which a clause has two children
C3_Witness ==
    /\ builds = 2
    /\ \E i \in 1..Len(clauses) : Len(clauses[i].children) = 2

(***************************************************************************)
(* Requirement extraction on texts of every shape: the document opens      *)
(* clause 6.1 and goes on with Text and ListItem blocks of one text, drawn *)
(* from the words below.                                                   *)
(***************************************************************************)
W_Shall_  == <<"S", "h", "a", "l", "l">>
W_shall_c == <<"s", "h", "a", "l", "l", ",">>
W_notes   == <<"n", "o", "t", "e", "s">>

ReqWords == {W_shall, W_Shall_, W_shall_c, W_not, W_notes, W_should, W_may}

\* the sequences over S of length at most n
RECURSIVE SeqsUpTo(_, _)
SeqsUpTo(S, n) ==
    IF n = 0 THEN {<<>>}
    ELSE LET shorter == SeqsUpTo(S, n - 1) IN
         shorter \cup {Append(q, x) : q \in shorter, x \in S}

ReqTexts == SeqsUpTo(ReqWords, MaxWords) \cup {T_Shall.html}

\* the state convert_file is in when it has handed over the header
\* "6.1 Test Methods" as the first top-level child
InitReq ==
    /\ clauses = <<>>
    /\ context = NewContext
    /\ counters = NewCounters
    /\ files = {}
    /\ log = <<>>
    /\ source \in {{Block("Text", t), Block("ListItem", t)} : t \in ReqTexts}
    /\ todo = <<H_6_1_Test_Methods>>
    /\ fed = <<H_6_1_Test_Methods>>
    /\ trail = <<>>
    /\ roots = <<>>
    /\ builds = 0
    /\ chunks = <<>>
    /\ result = NoResult
    /\ pc = "process"
    /\ ChunkStageIdle
    /\ RunIdle

NextReq ==
    \/ Feed
    \/ ProcessSectionHeader
    \/ ProcessText
    \/ ProcessListItem

SpecReq == InitReq /\ [][NextReq]_vars

\* The modal keywords of the specification and the type each stands for.
ModalType(k) ==
    CASE k = W_shall_not -> T_prohibition
      [] k = W_shall -> T_mandatory
      [] k = W_should -> T_recommendation
      [] k = W_may -> T_permission

\* word w occurs in token tok at position p as a whole word, in any case
OccursAt(tok, p, w) ==
    /\ p >= 1
    /\ p + Len(w) - 1 <= Len(tok)
    /\ Lower(SubSeq(tok, p, p + Len(w) - 1)) = w
    /\ (p > 1 => ~IsWordChar(tok[p - 1]))
    /\ (p + Len(w) <= Len(tok) => ~IsWordChar(tok[p + Len(w)]))

\* the modal keywords occurring in text at token i, position p
ModalsAt(text, i, p) ==
    {k \in {W_shall, W_should, W_may} : OccursAt(text[i], p, k)}
    \cup {k \in {W_shall_not} :
            /\ OccursAt(text[i], p, W_shall)
            /\ p + Len(W_shall) - 1 = Len(text[i])
            /\ i < Len(text)
            /\ OccursAt(text[i + 1], 1, W_not)}

\* the places of text where a modal keyword occurs
ModalPlaces(text) ==
    {pl \in UNION {{<<i, p>> : p \in 1..Len(text[i])} : i \in 1..Len(text)} :
        ModalsAt(text, pl[1], pl[2]) # {}}

PlaceBefore(a, b) == a[1] < b[1] \/ (a[1] = b[1] /\ a[2] <= b[2])

\* the requirements the specification asks of a text: none without a modal
\* keyword, else one, for the keyword at the first place (the longer one
\* when "shall" and "shall not" start at the same place)
ExpectedRequirements(text) ==
    IF ModalPlaces(text) = {} THEN <<>>
    ELSE LET first == CHOOSE a \in ModalPlaces(text) :
                         \A b \in ModalPlaces(text) : PlaceBefore(a, b)
             ks == ModalsAt(text, first[1], first[2])
             k == IF W_shall_not \in ks THEN W_shall_not ELSE CHOOSE x \in ks : TRUE
         IN <<[type |-> ModalType(k), keyword |-> k, text |-> text]>>

RECURSIVE ExpectedOfContent(_)
ExpectedOfContent(content) ==
    IF content = <<>> THEN <<>>
    ELSE (IF content[1].type \in {"paragraph", "list_item"}
          THEN ExpectedRequirements(content[1].text) ELSE <<>>)
         \o ExpectedOfContent(Tail(content))

\* C5: for every text block, exactly one Requirement is recorded when the
\* text holds one or more modal keywords and none otherwise; its keyword is
\* the first by position and its type the fixed mapping of that keyword.
\* The header "6.1 Test Methods" followed by the Text "This clause shall
\* specify test conditions." gives clause 6.1, titled "Test Methods", with
\* one mandatory/shall requirement.
C5_OneRequirementFirstKeyword ==
    /\ \A i \in 1..Len(clauses) :
          clauses[i].requirements = ExpectedOfContent(clauses[i].content)
    /\ (trail = <<Node(H_6_1_Test_Methods), Node(T_Shall)>>) =>
          /\ Len(clauses) = 1
          /\ clauses[1].id = K_6_1
          /\ clauses[1].title = <<W_Test, W_Methods>>
          /\ clauses[1].requirements =
                <<[type |-> T_mandatory, keyword |-> W_shall, text |-> T_Shall.html]>>

\* a text block "may Shall not" was processed under clause 6.1: three modal
\* keywords (may, shall not, shall), one requirement, for "may"
C5_Witness ==
    /\ Len(clauses) = 1
    /\ Len(clauses[1].content) = 1
    /\ clauses[1].content[1].text = <<W_may, W_Shall_, W_not>>
    /\ clauses[1].requirements =
          <<[type |-> T_permission, keyword |-> W_may,
             text |-> <<W_may, W_Shall_, W_not>>]>>

(***************************************************************************)
(* Claims about the traversal and the handlers.                            *)
(***************************************************************************)
\* a step of process_block on the head of todo
BlockStep == pc = "process" /\ todo # <<>> /\ trail' # trail

\* a SectionHeader whose cleaned text is one identifier and nothing else
IsBareHeader(b) ==
    /\ b.is_dict
    /\ b.block_type = "SectionHeader"
    /\ Len(StripHtml(b.html)) = 1
    /\ IsClauseNumber(StripHtml(b.html)[1])

\* a SectionHeader whose cleaned text is not empty and has no leading
\* identifier
IsTitleOnlyHeader(b) ==
    /\ b.is_dict
    /\ b.block_type = "SectionHeader"
    /\ StripHtml(b.html) # <<>>
    /\ ~IsClauseNumber(StripHtml(b.html)[1])

\* process_block is about to run on a title-only header right after it ran
\* on a bare header
MergeStep ==
    /\ BlockStep
    /\ trail # <<>>
    /\ IsBareHeader(trail[Len(trail)])
    /\ IsTitleOnlyHeader(todo[1])

PendingId == StripHtml(trail[Len(trail)].html)[1]

\* C6 as stated: a bare-identifier header followed by a header without
\* leading identifier yields exactly one clause with the pending identifier
\* as id and the second header's full text as title, and that clause
\* becomes the current clause.
C6_MergeTakesSecondHeaderAsTitle ==
    [][MergeStep =>
          /\ Cardinality({i \in 1..Len(clauses') : clauses'[i].id = PendingId}) = 1
          /\ ClauseAt(clauses', PendingId).title = StripHtml(todo[1].html)
          /\ context'.current_clause_id = PendingId]_vars

\* C6, amended: the merge yields exactly one clause with the pending
\* identifier as id, which becomes the current clause; its title is the
\* second header's full text when the identifier was not yet in the clause
\* map, and the clause map is left as it was when it already was.
C6_MergeOpensPendingClause ==
    [][MergeStep =>
          /\ Cardinality({i \in 1..Len(clauses') : clauses'[i].id = PendingId}) = 1
          /\ context'.current_clause_id = PendingId
          /\ PendingId \notin ClauseIds(clauses) =>
                ClauseAt(clauses', PendingId).title = StripHtml(todo[1].html)
          /\ PendingId \in ClauseIds(clauses) => clauses' = clauses]_vars

\* "A.2" then "Environmental Tests" were processed and gave the current
\* clause A.2, titled "Environmental Tests"
C6_Witness ==
    /\ Len(trail) >= 2
    /\ trail[Len(trail) - 1] = Node(H_A_2)
    /\ trail[Len(trail)] = Node(H_Environmental_Tests)
    /\ Cardinality({i \in 1..Len(clauses) : clauses[i].id = K_A_2}) = 1
    /\ ClauseAt(clauses, K_A_2).title = <<W_Environmental, W_Tests>>
    /\ context.current_clause_id = K_A_2

\* the calls of process_block a traversal into every child of every block
\* makes, in depth-first pre-order
RECURSIVE PreOrderAll(_)
PreOrderAll(blocks) ==
    IF blocks = <<>> THEN <<>>
    ELSE <<Node(blocks[1])>> \o PreOrderAll(blocks[1].children)
                             \o PreOrderAll(Tail(blocks))

\* the same, a PageHeader or PageFooter block being a leaf
RECURSIVE PreOrderPruned(_)
PreOrderPruned(blocks) ==
    IF blocks = <<>> THEN <<>>
    ELSE <<Node(blocks[1])>>
         \o (IF blocks[1].block_type \in {"PageHeader", "PageFooter"} THEN <<>>
             ELSE PreOrderPruned(blocks[1].children))
         \o PreOrderPruned(Tail(blocks))

ProcessorUnchanged == UNCHANGED <<clauses, context, counters, files, log>>

\* C7 as stated: process_block recurses into every child of every block,
\* the children of PageHeader and PageFooter blocks included.
C7_EveryChildIsTraversed ==
    todo = <<>> => trail = PreOrderAll(fed)

\* C7, amended: process_block recurses into every child of every block
\* whose kind is not PageHeader or PageFooter, the blocks without handler
\* included (nothing is extracted at such a node); a PageHeader or
\* PageFooter block returns at once, so nothing below it is traversed.
C7_ChildrenTraversedExceptUnderHeaderFooter ==
    /\ [](todo = <<>> => trail = PreOrderPruned(fed))
    /\ [][(BlockStep /\ todo[1].is_dict
              /\ todo[1].block_type \notin
                    {"SectionHeader", "Caption", "Table", "Picture", "Text",
                     "Footnote", "ListItem"})
            => ProcessorUnchanged]_vars

\* a document with a Text under a Page, which was processed, and a Text
\* under a PageHeader, which was not
C7_Witness ==
    /\ todo = <<>>
    /\ \E i, j \in 1..Len(fed) :
          /\ fed[i] = PageHeader(<<T_Refs>>)
          /\ fed[j] = Page(<<H_6_1_Test_Methods, T_Shall>>)
    /\ \E k \in 1..Len(trail) : trail[k] = Node(T_Shall)
    /\ \A k \in 1..Len(trail) : trail[k] # Node(T_Refs)
    /\ \E i \in 1..Len(clauses) : clauses[i].requirements # <<>>

\* what a step appended to a list
Added(old, new) == SubSeq(new, Len(old) + 1, Len(new))

IsPrefix(old, new) == Len(old) <= Len(new) /\ SubSeq(new, 1, Len(old)) = old

RECURSIVE Concat(_)
Concat(seqs) == IF seqs = <<>> THEN <<>> ELSE seqs[1] \o Concat(Tail(seqs))

\* the keys of the images a Picture step recorded, as FigureEntry or as
\* misc metadata
RecordedKeys ==
    LET figs == Concat([i \in 1..Len(clauses) |->
                           Added(clauses[i].figures, clauses'[i].figures)])
        misc == Added(counters.misc_image_metadata, counters'.misc_image_metadata)
    IN  [i \in 1..Len(figs) |-> figs[i].original_key]
            \o [i \in 1..Len(misc) |-> misc[i].original_key]

PictureStep == BlockStep /\ todo[1].is_dict /\ todo[1].block_type = "Picture"

ImageKeys(block) == [i \in 1..Len(block.images) |-> block.images[i].key]

\* C8: when decoding or persisting one image of a Picture block fails, only
\* that image is skipped: no FigureEntry or misc record is added for it,
\* the other images of the block are recorded, in order, and the traversal
\* goes on.  The images that failed are those a warning was printed for.
C8_FailedImageAloneIsSkipped ==
    [][PictureStep =>
          LET keys == ImageKeys(todo[1])
              warned == Range(Added(log, log'))
          IN  /\ IsPrefix(log, log')
              /\ Len(clauses') = Len(clauses)
              /\ \A i \in 1..Len(clauses) :
                    IsPrefix(clauses[i].figures, clauses'[i].figures)
              /\ IsPrefix(counters.misc_image_metadata, counters'.misc_image_metadata)
              /\ \A i \in 1..Len(todo[1].images) :
                    todo[1].images[i].b64 \in {<<>>, B64_bad} => keys[i] \in warned
              /\ RecordedKeys = SelectSeq(keys, LAMBDA k : k \notin warned)
              /\ Added(log, log') = SelectSeq(keys, LAMBDA k : k \in warned)
              /\ todo' = todo[1].children \o Tail(todo)
              /\ pc' = "process"]_vars

\* the first image of a block could not be decoded and was skipped, the
\* second was recorded, and so was the image of the Picture block after it
C8_Witness ==
    /\ trail = <<Node(P_Bad_Jpg), Node(P_Png)>>
    /\ log = <<Key_a>>
    /\ Len(counters.misc_image_metadata) = 2
    /\ counters.misc_image_metadata[1].original_key = Key_b
    /\ counters.misc_image_metadata[2].original_key = Key_a

\* the index k of a file name <dir>/misc_<k>_<rest>, 0 when the path is not
\* of that form
MiscIndex(path) ==
    LET prefix == <<"o", "u", "t", "p", "u", "t", "_", "i", "m", "a", "g", "e", "s",
                    "/", "d", "o", "c", "/", "m", "i", "s", "c", "/",
                    "m", "i", "s", "c", "_">>
        rest == SubSeq(path, Len(prefix) + 1, Len(path))
        digits == {n \in 1..Len(rest) : \A i \in 1..n : IsDigit(rest[i])}
        n == IF digits = {} THEN 0 ELSE Greatest(digits)
    IN  IF /\ Len(path) > Len(prefix)
           /\ SubSeq(path, 1, Len(prefix)) = prefix
           /\ n > 0
           /\ n < Len(rest)
           /\ rest[n + 1] = "_"
        THEN ToInt(SubSeq(rest, 1, n))
        ELSE 0

MiscChunkId == <<"d", "o", "c", "_", "m", "i", "s", "c">>

MiscChunksOf(r) == {k \in 1..Len(r.chunks) : r.chunks[k].id = MiscChunkId}

\* C9: images met while no clause is open are recorded as misc-image
\* metadata, never as a FigureEntry of a clause; their file names are
\* misc_<k>_* with k a document-scoped index growing in encounter order
\* (1, 2, ... when every misc image reaching the write was written, as for
\* two Picture blocks before any SectionHeader); the output holds the synthetic misc chunk exactly
\* once, and it lists all of them.
C9_MiscImagesAreNumberedInOrder ==
    /\ [](LET meta == counters.misc_image_metadata
          IN  \A j \in 1..Len(meta) :
                 /\ MiscIndex(meta[j].path) >= 1
                 /\ MiscIndex(meta[j].path) <= counters.misc_image_counter
                 /\ j > 1 => MiscIndex(meta[j - 1].path) < MiscIndex(meta[j].path)
                 /\ counters.misc_image_counter = counters.misc_images
                       => MiscIndex(meta[j].path) = j)
    /\ [][(PictureStep /\ context.current_clause_id = None) =>
             /\ clauses' = clauses
             /\ Len(Added(counters.misc_image_metadata, counters'.misc_image_metadata))
                  + Len(Added(log, log')) = Len(todo[1].images)]_vars
    /\ [](pc = "done" /\ counters.misc_image_metadata # <<>> =>
             /\ Cardinality(MiscChunksOf(result)) = 1
             /\ \A k \in MiscChunksOf(result) :
                   result.chunks[k].figures = counters.misc_image_metadata)

\* two Picture blocks before any SectionHeader gave misc_1_* and misc_2_*,
\* and the one misc chunk of the output lists both
C9_Witness ==
    /\ pc = "done"
    /\ Len(trail) = 2
    /\ \A k \in 1..2 : trail[k].block_type = "Picture" /\ Len(trail[k].images) = 1
    /\ clauses = <<>>
    /\ Len(counters.misc_image_metadata) = 2
    /\ \A j \in 1..2 : MiscIndex(counters.misc_image_metadata[j].path) = j
    /\ Len(result.chunks) = 1
    /\ result.chunks[1].id = MiscChunkId
    /\ Len(result.chunks[1].figures) = 2

\* C10: the synthetic misc-image chunk is in a document's output if and
\* only if at least one misc image was recorded; when present it occurs
\* exactly once, is the last chunk, after all clause chunks, has parent_id
\* null and no children, and total_chunks counts it.
C10_MiscChunkIffMiscImages ==
    pc = "done" =>
        /\ (MiscChunksOf(result) # {}) <=> (counters.misc_image_metadata # <<>>)
        /\ Cardinality(MiscChunksOf(result)) <= 1
        /\ \A k \in MiscChunksOf(result) :
              /\ k = Len(result.chunks)
              /\ result.chunks[k].parent_id = None
              /\ result.chunks[k].children_ids = <<>>
        /\ Len(result.chunks) - Cardinality(MiscChunksOf(result)) = Len(clauses)
        /\ result.statistics.total_chunks = Len(result.chunks)

\* an output with a clause chunk and, after it, the misc chunk
C10_Witness ==
    /\ pc = "done"
    /\ Len(result.chunks) = 2
    /\ MiscChunksOf(result) = {2}
    /\ Len(clauses) = 1
    /\ result.chunks[1].figures # <<>>
    /\ result.statistics.total_chunks = 2

(***************************************************************************)
(* schema_to_chunks.  The schema files hold Python strings: a text is the  *)
(* sequence of its characters, its words separated by one space.           *)
(***************************************************************************)
IsLetter(c) == c \in UpperChars \cup LowerChars

\* \b between position i and position i + 1 of s
BoundaryAfter(s, i) ==
    (i >= 1 /\ i <= Len(s) /\ IsWordChar(s[i]))
        # (i + 1 >= 1 /\ i + 1 <= Len(s) /\ IsWordChar(s[i + 1]))

\* the literal w (lowercase), compared without case, at position p of s
LitAt(s, p, w) ==
    /\ p + Len(w) - 1 <= Len(s)
    /\ Lower(SubSeq(s, p, p + Len(w) - 1)) = w

\* the first position from i on that holds no whitespace
RECURSIVE SkipSpaces(_, _)
SkipSpaces(s, i) == IF i <= Len(s) /\ s[i] = " " THEN SkipSpaces(s, i + 1) ELSE i

\* the end of the match of (?:\.\d+){0,k}\b after position e, which ends a
\* run of digits; 0 when there is none
RECURSIVE NumericTail(_, _, _)
NumericTail(s, e, k) ==
    LET here == IF BoundaryAfter(s, e) THEN e ELSE 0 IN
    IF k > 0 /\ e + 1 <= Len(s) /\ s[e + 1] = "." /\ DigitRun(s, e + 2) > 0
    THEN LET further == NumericTail(s, e + 1 + DigitRun(s, e + 2), k - 1) IN
         IF further > 0 THEN further ELSE here
    ELSE here

\* NUMERIC_REF_PATTERN matched at position p: the end of the match, 0 when
\* it does not match there
NumericRefAt(s, p) ==
    IF IsDigit(s[p]) /\ BoundaryAfter(s, p - 1)
    THEN NumericTail(s, p + DigitRun(s, p) - 1, 4)
    ELSE 0

W_subclause == <<"s", "u", "b", "c", "l", "a", "u", "s", "e">>
W_annex     == <<"a", "n", "n", "e", "x">>

\* the alternatives of KEYWORD_REF_PATTERN, in order
RefKeywords == <<W_clause, W_subclause, W_section, W_annex>>

\* the length of the keyword of KEYWORD_REF_PATTERN at position p, 0 when
\* there is none
RefKeywordAt(s, p) ==
    LET hits == {i \in 1..Len(RefKeywords) : LitAt(s, p, RefKeywords[i])} IN
    IF hits = {} THEN 0
    ELSE Len(RefKeywords[CHOOSE i \in hits : \A j \in hits : i <= j])

\* KEYWORD_REF_PATTERN matched at position p: the end of the match, 0 when
\* it does not match there
KeywordRefAt(s, p) ==
    LET n == RefKeywordAt(s, p)
        r == SkipSpaces(s, p + n)
    IN  IF /\ BoundaryAfter(s, p - 1)
           /\ n > 0
           /\ r > p + n
           /\ r <= Len(s)
        THEN IF IsLetter(s[r]) THEN r ELSE DottedEnd(s, r)
        ELSE 0

\* \b<w>\s+\d+[A-Z]?\b (IGNORECASE) matched at position p: the end of the
\* match, 0 when it does not match there
NumberedAt(s, p, w) ==
    LET r == SkipSpaces(s, p + Len(w))
        e == r + DigitRun(s, r) - 1
    IN  IF /\ BoundaryAfter(s, p - 1)
           /\ LitAt(s, p, w)
           /\ r > p + Len(w)
           /\ e >= r
        THEN IF e + 1 <= Len(s) /\ IsLetter(s[e + 1]) /\ BoundaryAfter(s, e + 1)
                  THEN e + 1
             ELSE IF BoundaryAfter(s, e) THEN e
             ELSE 0
        ELSE 0

\* TABLE_PATTERN
TableRefAt(s, p) == NumberedAt(s, p, W_table)

\* FIGURE_PATTERN
FigureRefAt(s, p) == NumberedAt(s, p, W_figure)

W_bs == <<"b", "s">>
W_en == <<"e", "n">>
W_iso == <<"i", "s", "o">>
W_iec == <<"i", "e", "c">>
W_ieee == <<"i", "e", "e", "e">>
W_cispr == <<"c", "i", "s", "p", "r">>
W_hd == <<"h", "d">>
W_is == <<"i", "s">>
W_ais == <<"a", "i", "s">>
W_bis == <<"b", "i", "s">>
W_itu == <<"i", "t", "u">>
W_t == <<"t">>

\* the one-word alternatives of STANDARD_PATTERN, in order
StandardBodies == <<W_iso, W_iec, W_ieee, W_cispr, W_en, W_hd, W_is, W_ais, W_bis>>

\* the ends of the issuing body of STANDARD_PATTERN at position p, one for
\* each alternative that matches there, in the order of the alternatives
BodyEnds(s, p) ==
    LET r == SkipSpaces(s, p + 2)
        a == SkipSpaces(s, p + 3)
        b == SkipSpaces(s, a + 1)
        bs_en == IF LitAt(s, p, W_bs) /\ r > p + 2 /\ LitAt(s, r, W_en)
                 THEN <<r + 1>> ELSE <<>>
        iso_iec == IF LitAt(s, p, W_iso) /\ a <= Len(s) /\ s[a] = "/" /\ LitAt(s, b, W_iec)
                   THEN <<b + 2>> ELSE <<>>
        one == SelectSeq(StandardBodies, LAMBDA w : LitAt(s, p, w))
        itu_t == IF LitAt(s, p, W_itu) /\ p + 3 <= Len(s) /\ s[p + 3] \in {"-", " "}
                    /\ LitAt(s, p + 4, W_t)
                 THEN <<p + 4>> ELSE <<>>
    IN  bs_en \o iso_iec \o [i \in 1..Len(one) |-> p + Len(one[i]) - 1] \o itu_t

\* the end of the run of [A-Z0-9.\-] (IGNORECASE) that follows position e
RECURSIVE DesignationEnd(_, _)
DesignationEnd(s, e) ==
    IF e + 1 <= Len(s) /\ (IsLetter(s[e + 1]) \/ IsDigit(s[e + 1]) \/ s[e + 1] \in {".", "-"})
    THEN DesignationEnd(s, e + 1)
    ELSE e

\* the first position from i on that holds c, 0 when there is none
RECURSIVE Find(_, _, _)
Find(s, c, i) == IF i > Len(s) THEN 0 ELSE IF s[i] = c THEN i ELSE Find(s, c, i + 1)

\* the end of \s*\([^)]+\) after position e, 0 when it does not match
EditionEnd(s, e) ==
    LET i == SkipSpaces(s, e + 1)
        c == Find(s, ")", i + 1)
    IN  IF i <= Len(s) /\ s[i] = "(" /\ c > i + 1 THEN c ELSE 0

\* the end of \s*:\s*\d{4} after position e, 0 when it does not match
YearEnd(s, e) ==
    LET i == SkipSpaces(s, e + 1)
        k == SkipSpaces(s, i + 1)
    IN  IF i <= Len(s) /\ s[i] = ":" /\ DigitRun(s, k) >= 4 THEN k + 3 ELSE 0

\* the end of (?:\s*\([^)]+\))?(?:\s*:\s*\d{4})?\b after position e, each
\* group taken when the match can go on with it; 0 when there is no match
SuffixEnd(s, e) ==
    LET ed == EditionEnd(s, e)
        edy == IF ed > 0 THEN YearEnd(s, ed) ELSE 0
        y == YearEnd(s, e)
    IN  IF edy > 0 /\ BoundaryAfter(s, edy) THEN edy
        ELSE IF ed > 0 /\ BoundaryAfter(s, ed) THEN ed
        ELSE IF y > 0 /\ BoundaryAfter(s, y) THEN y
        ELSE IF BoundaryAfter(s, e) THEN e
        ELSE 0

\* the designation given back character by character, from e down to its
\* first digit at position a
RECURSIVE GiveBack(_, _, _)
GiveBack(s, e, a) ==
    IF e < a THEN 0
    ELSE IF BoundaryAfter(s, e) THEN e
    ELSE GiveBack(s, e - 1, a)

\* the end of \s+[A-Z]?\d+[A-Z0-9.\-]*(...)?(...)?\b after position q, 0 when
\* it does not match
DesignationAfter(s, q) ==
    LET r == SkipSpaces(s, q + 1)
        a == IF r <= Len(s) /\ IsLetter(s[r]) THEN r + 1 ELSE r
        e == DesignationEnd(s, a + DigitRun(s, a) - 1)
    IN  IF r > q + 1 /\ DigitRun(s, a) > 0
        THEN IF SuffixEnd(s, e) > 0 THEN SuffixEnd(s, e) ELSE GiveBack(s, e - 1, a)
        ELSE 0

\* STANDARD_PATTERN matched at position p: the end of the match, 0 when it
\* does not match there
StandardAt(s, p) ==
    LET ends == BodyEnds(s, p)
        hits == SelectSeq(ends, LAMBDA q : DesignationAfter(s, q) > 0)
    IN  IF BoundaryAfter(s, p - 1) /\ hits # <<>> THEN DesignationAfter(s, hits[1])
        ELSE 0

\* the pattern named pat matched at position p of s: the end of the match,
\* 0 when it does not match there
PatternAt(pat, s, p) ==
    CASE pat = "NUMERIC_REF_PATTERN" -> NumericRefAt(s, p)
      [] pat = "KEYWORD_REF_PATTERN" -> KeywordRefAt(s, p)
      [] pat = "TABLE_PATTERN" -> TableRefAt(s, p)
      [] pat = "FIGURE_PATTERN" -> FigureRefAt(s, p)
      [] pat = "STANDARD_PATTERN" -> StandardAt(s, p)

\* findall / finditer: the spans of the matches of a pattern in s from
\* position p on, leftmost first, none overlapping another
RECURSIVE FindAll(_, _, _)
FindAll(pat, s, p) ==
    IF p > Len(s) THEN <<>>
    ELSE \* the scan goes on after a match, or at the next position
         LET Scan(e) == IF e > 0
                        THEN <<[first |-> p, last |-> e]>> \o FindAll(pat, s, e + 1)
                        ELSE FindAll(pat, s, p + 1)
         IN  Scan(PatternAt(pat, s, p))

\* the text a match spans
SpanText(s, span) == SubSeq(s, span.first, span.last)

\* the texts the matches of a pattern without group span
Matches(pat, s) == {SpanText(s, span) : span \in Range(FindAll(pat, s, 1))}

\* f"{kw} {ref}" for a match of KEYWORD_REF_PATTERN: its two groups
KeywordRef(s, p, n, last) ==
    SubSeq(s, p, p + n - 1) \o <<" ">> \o SubSeq(s, SkipSpaces(s, p + n), last)

KeywordRefs(s) ==
    {KeywordRef(s, span.first, RefKeywordAt(s, span.first), span.last) :
        span \in Range(FindAll("KEYWORD_REF_PATTERN", s, 1))}

\* extract_text_blocks
ExtractTextBlocks(content) ==
    LET texts == SelectSeq(content, LAMBDA item : item.text # None) IN
    [i \in 1..Len(texts) |-> texts[i].text]

\* A mutated extraction: the table and figure mentions are left out.
ExtractInternalReferencesNoTables(content) ==
    UNION {KeywordRefs(text) \cup Matches("NUMERIC_REF_PATTERN", text)
           : text \in Range(ExtractTextBlocks(content))}

\* extract_internal_references
ExtractInternalReferences(content) ==
    UNION {KeywordRefs(text) \cup Matches("NUMERIC_REF_PATTERN", text)
              \cup Matches("TABLE_PATTERN", text) \cup Matches("FIGURE_PATTERN", text)
           : text \in Range(ExtractTextBlocks(content))}

\* str.strip()
Strip(s) == RStrip(LStrip(s, " "), " ")

\* extract_external_standards
ExtractExternalStandards(content) ==
    UNION {{Strip(m) : m \in Matches("STANDARD_PATTERN", text)}
           : text \in Range(ExtractTextBlocks(content))}

\* sorted(S) for a set of strings
Sorted(S) ==
    [i \in 1..Cardinality(S) |->
        CHOOSE x \in S : Cardinality({y \in S : StrLess(y, x)}) = i - 1]

\* str.split(): the words of s, whitespace dropped
SplitWords(s) == SelectSeq(Split(s, " "), LAMBDA w : w # <<>>)

\* ref.split()[-1]
LastWord(ref) == LET words == SplitWords(ref) IN words[Len(words)]

\* f"{document_id}::{ref_id}"
Qualified(document_id, ref_id) == document_id \o <<":", ":">> \o ref_id

\* A mutated membership test: an identifier that starts like the reference
\* is enough.
IsKnownByPrefix(ref_id, known) == \E id \in known : StartsWith(id, ref_id)

\* ref_id in known_chunk_ids
IsKnown(ref_id, known) == ref_id \in known

\* A mutated resolve_internal_references: a reference to a table or a
\* figure is never resolved to a clause.
ResolveClauseReferencesOnly(raw_refs, known, document_id) ==
    Sorted({Qualified(document_id, ref_id) :
               ref_id \in {id \in {LastWord(ref) :
                                      ref \in {r \in raw_refs :
                                                  Lower(SplitWords(r)[1])
                                                     \notin {Lower(W_Table), Lower(W_Figure)}}} :
                              IsKnown(id, known)}})

\* resolve_internal_references
ResolveInternalReferences(raw_refs, known, document_id) ==
    Sorted({Qualified(document_id, ref_id) :
               ref_id \in {id \in {LastWord(ref) : ref \in raw_refs} :
                              IsKnown(id, known)}})

\* safe_filename
SafeFilename(text) == ReplaceChar(ReplaceChar(text, "/", "_"), " ", "_")

S_json == <<".", "j", "s", "o", "n">>

\* write_chunk: the file it writes, as path and content
WriteChunk(chunk, known) ==
    LET doc_id == chunk.document_id
        References(internal_raw, external_standards) ==
            [internal_raw |-> Sorted(internal_raw),
             internal_resolved |->
                 ResolveInternalReferences(internal_raw, known, doc_id),
             standards |-> Sorted(external_standards)]
    IN  [path |-> doc_id \o <<"/">> \o SafeFilename(chunk.id) \o S_json,
         chunk_id |-> Qualified(doc_id, chunk.id),
         document_id |-> doc_id,
         clause_id |-> chunk.id,
         title |-> chunk.title,
         parent_id |-> chunk.parent_id,
         content |-> chunk.content,
         tables |-> chunk.tables,
         figures |-> chunk.figures,
         requirements |-> chunk.requirements,
         references |-> References(ExtractInternalReferences(chunk.content),
                                   ExtractExternalStandards(chunk.content)),
         children_ids |-> chunk.children_ids]

\* A mutated index: the identifiers of the documents before stay in it.
ChunkIdIndexKept(chs, before) == before \cup {chs[i].id : i \in 1..Len(chs)}

\* A mutated index: it holds the identifier of the first chunk only, as an
\* index filled while the chunks are written would when the first is.
ChunkIdIndexFirst(chs, before) == {chs[1].id}

\* known_chunk_ids = {c["id"] for c in chunks if "id" in c}
ChunkIdIndex(chs, before) == {chs[i].id : i \in 1..Len(chs)}

\* if not doc_id or not chunks
IsInvalidSchema(schema) == schema.document_id \in {None, <<>>} \/ schema.chunks = <<>>

\* main: the next schema file is read and its chunk id index built
ReadSchema ==
    /\ pc = "chunking"
    /\ pending = <<>>
    /\ cursor <= Len(schema_files)
    /\ ~IsInvalidSchema(schema_files[cursor])
    /\ known_chunk_ids' = ChunkIdIndex(schema_files[cursor].chunks, known_chunk_ids)
    /\ pending' = schema_files[cursor].chunks
    /\ cursor' = cursor + 1
    /\ UNCHANGED <<schema_files, written, pc>>
    /\ UNCHANGED schemaVars
    /\ UNCHANGED runVars

\* main: "Skipping ...: invalid schema"; continue
SkipSchema ==
    /\ pc = "chunking"
    /\ pending = <<>>
    /\ cursor <= Len(schema_files)
    /\ IsInvalidSchema(schema_files[cursor])
    /\ cursor' = cursor + 1
    /\ UNCHANGED <<schema_files, pending, known_chunk_ids, written, pc>>
    /\ UNCHANGED schemaVars
    /\ UNCHANGED runVars

\* main: write_chunk(chunk, known_chunk_ids) for the next chunk
WriteNextChunk ==
    /\ pc = "chunking"
    /\ pending # <<>>
    /\ written' = Append(written, WriteChunk(pending[1], known_chunk_ids))
    /\ pending' = Tail(pending)
    /\ UNCHANGED <<schema_files, cursor, known_chunk_ids, pc>>
    /\ UNCHANGED schemaVars
    /\ UNCHANGED runVars

(***************************************************************************)
(* The schema files of the chunk stage are results of convert_file: the    *)
(* clauses of a document, each with at most one paragraph, linked and      *)
(* flattened, and the misc node when the document has misc images.         *)
(***************************************************************************)
K_7 == <<"7">>
W_of == <<"o", "f">>
W_apply == <<"a", "p", "p", "l", "y">>
W_Annex == <<"A", "n", "n", "e", "x">>
W_Section == <<"S", "e", "c", "t", "i", "o", "n">>
W_ISO_IEC == <<"I", "S", "O", "/", "I", "E", "C">>
W_27001_2013 == <<"2", "7", "0", "0", "1", ":", "2", "0", "1", "3">>
W_doc_misc == <<"d", "o", "c", "_", "m", "i", "s", "c">>

X_refs == Join(<<W_See, W_Clause, K_6_1, W_and, W_Table, K_3, W_of, W_ISO_IEC,
                 W_27001_2013>>, " ")
X_annex == Join(<<W_Annex, K_A, W_and, W_Figure, K_6, W_apply>>, " ")
X_other == Join(<<W_Section, K_7, W_and, W_doc_misc, W_apply>>, " ")

StdId == <<"s", "t", "d">>
RefId == <<"r", "e", "f">>

\* one misc image record, as _save_misc_image appends it
MiscRecord(doc_id) ==
    [path |-> MiscImagePath(doc_id, 1, ImgRef(Key_a), E_png), caption |-> <<>>,
     format |-> LStrip(E_png, "."), original_key |-> Key_a, size_bytes |-> 3]

\* what convert_file returns for a document with the clauses ids, in the
\* order they were opened, texts[i] being the paragraph of clause ids[i]
\* (None: no paragraph), and with one misc image when misc holds
SchemaOf(doc_id, ids, texts, misc) ==
    LET cs == [i \in 1..Len(ids) |->
                  [NewClause(ids[i], Join(<<W_General>>, " ")) EXCEPT
                      !.content = IF texts[i] = None THEN <<>>
                                  ELSE <<[type |-> "paragraph", text |-> texts[i]]>>]]
        h == BuildClauseHierarchy(cs)
        cnt == IF misc
               THEN [NewCounters EXCEPT !.total_images = 1, !.misc_images = 1,
                                        !.misc_image_counter = 1,
                                        !.misc_image_metadata = <<MiscRecord(doc_id)>>]
               ELSE NewCounters
    IN  BuildResult(doc_id, h.clauses, FlattenClauses(h.clauses, h.roots, doc_id), cnt)

ChunkTexts == {None, X_refs, X_annex, X_other}

\* the schema files a run can find for each document
SchemasOfDoc ==
    {SchemaOf(DocId, ids, texts, misc) :
        ids \in {<<>>, <<K_6, K_6_1>>, <<K_6_1, K_A>>}, texts \in [1..2 -> ChunkTexts],
        misc \in BOOLEAN}

SchemasOfStd ==
    {SchemaOf(StdId, ids, <<t, t>>, FALSE) :
        ids \in {<<K_7>>, <<K_6, K_7>>}, t \in {X_refs, X_other}}

SchemasOfRef == {SchemaOf(RefId, <<K_A>>, <<X_annex>>, FALSE)}

AllSchemas == SchemasOfDoc \cup SchemasOfStd \cup SchemasOfRef

\* the lists of at most n schema files, one for each document at most, in
\* any order
RECURSIVE RunsUpTo(_)
RunsUpTo(n) ==
    IF n = 0 THEN {<<>>}
    ELSE LET shorter == RunsUpTo(n - 1) IN
         shorter \cup
         UNION {{Append(run, f) :
                    f \in {g \in AllSchemas :
                              \A i \in 1..Len(run) : run[i].document_id # g.document_id}}
                : run \in {r \in shorter : Len(r) = n - 1}}

\* list(OUTPUT_SCHEMA_DIR.glob(...)): at most MaxSchemas files
SchemaRuns == RunsUpTo(MaxSchemas)

InitChunks ==
    /\ clauses = <<>>
    /\ context = NewContext
    /\ counters = NewCounters
    /\ files = {}
    /\ log = <<>>
    /\ source = {}
    /\ todo = <<>>
    /\ fed = <<>>
    /\ trail = <<>>
    /\ roots = <<>>
    /\ builds = 0
    /\ chunks = <<>>
    /\ result = NoResult
    /\ pc = "chunking"
    /\ schema_files \in SchemaRuns
    /\ cursor = 1
    /\ pending = <<>>
    /\ known_chunk_ids = {}
    /\ written = <<>>
    /\ RunIdle

NextChunks == ReadSchema \/ SkipSchema \/ WriteNextChunk

SpecChunks == InitChunks /\ [][NextChunks]_vars

\* the identifiers of the clauses of document d: those of the chunks of its
\* schema, the synthetic misc chunk left out
RealClauseIds(d) ==
    UNION {{f.chunks[k].id : k \in {n \in 1..Len(f.chunks) :
                                      f.chunks[n].id # d \o <<"_", "m", "i", "s", "c">>}}
           : f \in {schema_files[i] : i \in {n \in 1..Len(schema_files) :
                                               schema_files[n].document_id = d}}}

\* C4: every entry of a chunk's internal_resolved list is documentId::X,
\* documentId being the chunk's own document id and X being exactly the
\* identifier of a real clause of the same document.
C4_ResolvedReferencesAreRealClauses ==
    \A i \in 1..Len(written) :
       \A j \in 1..Len(written[i].references.internal_resolved) :
          \E X \in RealClauseIds(written[i].document_id) :
             written[i].references.internal_resolved[j]
                = written[i].document_id \o <<":", ":">> \o X

\* two documents were chunked; a chunk of the first mentions clause 6.1,
\* which its document has, and table 3, which resolves to nothing
C4_Witness ==
    /\ Len(schema_files) = 2
    /\ cursor > Len(schema_files)
    /\ pending = <<>>
    /\ \E i, j \in 1..Len(written) :
          /\ written[i].document_id = <<"d", "o", "c">>
          /\ written[i].references.internal_resolved
                = << <<"d", "o", "c", ":", ":", "6", ".", "1">> >>
          /\ <<"T", "a", "b", "l", "e", " ", "3">>
                \in Range(written[i].references.internal_raw)
          /\ written[j].document_id = <<"s", "t", "d">>
          /\ written[j].references.internal_resolved # <<>>

\* the texts of the content items of a written chunk
TextsOf(w) == [k \in 1..Len(w.content) |-> w.content[k].text]

S_Clause_6_1 == Join(<<W_Clause, K_6_1>>, " ")
S_Table_3 == Join(<<W_Table, K_3>>, " ")
S_ISO_IEC_27001_2013 == Join(<<W_ISO_IEC, W_27001_2013>>, " ")

\* C11: for the text "See Clause 6.1 and Table 3 of ISO/IEC 27001:2013" in
\* a document whose clause ids include 6.1 but not 3, write_chunk gives
\* internal_resolved = [<documentId>::6.1], an internal_raw list holding
\* both the clause mention and the table mention, and a standards list
\* holding ISO/IEC 27001:2013; in general every raw mention stays in
\* internal_raw, and internal_resolved holds exactly those whose trailing
\* token is a real identifier of the document.
C11_UnresolvedMentionsStayRaw ==
    \A i \in 1..Len(written) :
       LET w == written[i]
           real == RealClauseIds(w.document_id)
           raw == Range(w.references.internal_raw)
           resolved == Range(w.references.internal_resolved)
       IN  /\ (TextsOf(w) = <<X_refs>> /\ K_6_1 \in real /\ K_3 \notin real) =>
                 /\ w.references.internal_resolved
                        = <<Qualified(w.document_id, K_6_1)>>
                 /\ {S_Clause_6_1, S_Table_3} \subseteq raw
                 /\ S_ISO_IEC_27001_2013 \in Range(w.references.standards)
           /\ ExtractInternalReferences(w.content) \subseteq raw
           /\ resolved = {Qualified(w.document_id, LastWord(r)) :
                             r \in {x \in raw : LastWord(x) \in real}}
           /\ \A r \in raw : LastWord(r) \notin real =>
                 Qualified(w.document_id, LastWord(r)) \notin resolved

\* the chunk of clause 6.1 of a document with the clauses 6 and 6.1 was
\* written; its text is the one above
C11_Witness ==
    \E i \in 1..Len(written) :
       /\ TextsOf(written[i]) = <<X_refs>>
       /\ written[i].clause_id = K_6_1
       /\ K_3 \notin RealClauseIds(written[i].document_id)
       /\ Len(written[i].references.internal_raw) > 2
       /\ Len(written[i].references.internal_resolved) = 1
       /\ written[i].references.standards # <<>>

\* the chunk list of the schema of document d
ChunkListOf(d) ==
    LET i == CHOOSE n \in 1..Len(schema_files) : schema_files[n].document_id = d
    IN  schema_files[i].chunks

\* the places of the chunk list of w's document that a raw mention of the
\* written chunk w names
PlacesNamed(w, r) ==
    {j \in 1..Len(ChunkListOf(w.document_id)) :
        ChunkListOf(w.document_id)[j].id = LastWord(r)}

\* the place of the written chunk w in the chunk list of its document
PlaceOf(w) ==
    CHOOSE k \in 1..Len(ChunkListOf(w.document_id)) :
        ChunkListOf(w.document_id)[k].id = w.clause_id

\* C12: reference resolution for a document is a barrier: whenever a chunk
\* is written, the known identifiers are all the chunk ids of its document,
\* and writing leaves them as they are; so a mention of a clause that comes
\* later in the chunk list resolves just as a mention of an earlier one.
C12_ResolutionIsABarrier ==
    /\ [][pending # <<>> =>
             LET chs == schema_files[cursor - 1].chunks IN
             /\ known_chunk_ids = {chs[k].id : k \in 1..Len(chs)}
             /\ known_chunk_ids' = known_chunk_ids
             /\ Len(written') = Len(written) + 1]_vars
    /\ [](\A i \in 1..Len(written) :
            \A r \in Range(written[i].references.internal_raw) :
               PlacesNamed(written[i], r) # {} =>
                  Qualified(written[i].document_id, LastWord(r))
                     \in Range(written[i].references.internal_resolved))

\* a written chunk mentions a clause that is later in the chunk list, another
\* one a clause that is earlier, and both mentions are resolved
C12_Witness ==
    /\ \E i \in 1..Len(written) :
          \E r \in Range(written[i].references.internal_raw) :
             /\ \E j \in PlacesNamed(written[i], r) : j > PlaceOf(written[i])
             /\ Qualified(written[i].document_id, LastWord(r))
                   \in Range(written[i].references.internal_resolved)
    /\ \E i \in 1..Len(written) :
          \E r \in Range(written[i].references.internal_raw) :
             /\ \E j \in PlacesNamed(written[i], r) : j < PlaceOf(written[i])
             /\ Qualified(written[i].document_id, LastWord(r))
                   \in Range(written[i].references.internal_resolved)

(***************************************************************************)
(* Further claims about the hierarchy.                                     *)
(***************************************************************************)
\* parent is shorter than child and is child cut at one of its dots
IsStructuralPrefix(parent, child) ==
    /\ Len(parent) < Len(child)
    /\ SubSeq(child, 1, Len(parent)) = parent
    /\ child[Len(parent) + 1] = "."

\* the identifiers met by following parent_id from cid, at most n steps
RECURSIVE AncestorsWithin(_, _, _)
AncestorsWithin(cs, cid, n) ==
    IF n = 0 \/ cid \notin ClauseIds(cs) \/ ClauseAt(cs, cid).parent_id = None
    THEN {}
    ELSE {ClauseAt(cs, cid).parent_id}
            \cup AncestorsWithin(cs, ClauseAt(cs, cid).parent_id, n - 1)

\* following parent_id from cid reaches a clause without parent in at most
\* n steps
RECURSIVE ReachesRootWithin(_, _, _)
ReachesRootWithin(cs, cid, n) ==
    /\ cid \in ClauseIds(cs)
    /\ \/ ClauseAt(cs, cid).parent_id = None
       \/ n > 0 /\ ReachesRootWithin(cs, ClauseAt(cs, cid).parent_id, n - 1)

\* C13: the hierarchy build_clause_hierarchy produces is acyclic: following
\* parent_id from any clause reaches a root in finitely many steps, each
\* parent identifier is strictly shorter than its child's identifier and a
\* structural prefix of it, and no identifier is its own ancestor; the
\* children lists describe the same forest.
C13_HierarchyIsAcyclic ==
    builds >= 1 =>
        \A i \in 1..Len(clauses) :
            /\ ReachesRootWithin(clauses, clauses[i].id, Len(clauses) - 1)
            /\ clauses[i].id \notin AncestorsWithin(clauses, clauses[i].id, Len(clauses))
            /\ clauses[i].parent_id # None =>
                  IsStructuralPrefix(clauses[i].parent_id, clauses[i].id)
            /\ \A child \in Range(clauses[i].children) :
                  /\ child \in ClauseIds(clauses)
                  /\ ClauseAt(clauses, child).parent_id = clauses[i].id

\* a built map holding the chain 6, 6.1, 6.1.2 and an annex root
C13_Witness ==
    /\ builds >= 1
    /\ ClauseIds(clauses) = {K_6, K_6_1, K_6_1_2, K_A}
    /\ AncestorsWithin(clauses, K_6_1_2, 4) = {K_6, K_6_1}
    /\ ClauseAt(clauses, K_6).children = <<K_6_1>>

\* the dot-segments of a numeric identifier, as integers
SegmentInts(id) == [k \in 1..Len(Split(id, ".")) |-> ToInt(Split(id, ".")[k])]

\* C14: the root list build_clause_hierarchy returns holds the clauses
\* without parent, each once; the roots whose identifier starts with a digit
\* come before all others, in the order of their dot-segments compared as
\* integer tuples (2 before 10), and the other roots follow in the lexical
\* order of their identifiers.
C14_RootsNumericFirstThenLexical ==
    builds >= 1 =>
        /\ NoDuplicates(roots)
        /\ Range(roots) = {clauses[i].id : i \in {n \in 1..Len(clauses) :
                                                   clauses[n].parent_id = None}}
        /\ \A i, j \in 1..Len(roots) :
              i < j =>
                 /\ IsDigit(roots[j][1]) => IsDigit(roots[i][1])
                 /\ IsDigit(roots[i][1]) /\ IsDigit(roots[j][1]) =>
                       IntListLess(SegmentInts(roots[i]), SegmentInts(roots[j]))
                 /\ ~IsDigit(roots[i][1]) /\ ~IsDigit(roots[j][1]) =>
                       StrLess(roots[i], roots[j])

\* the clauses A.2, 10, A and 2 were opened in this order: the roots are 2,
\* 10 and A
C14_Witness ==
    /\ builds >= 1
    /\ [i \in 1..Len(clauses) |-> clauses[i].id] = <<K_A_2, K_10, K_A, K_2_>>
    /\ roots = <<K_2_, K_10, K_A>>

(***************************************************************************)
(* detect_image_format on byte sequences: a head (a signature, a cut       *)
(* signature, something else), some zero bytes, a tail.                    *)
(***************************************************************************)
B_PNG  == <<137, 80, 78, 71>>
B_JPG  == <<255, 216, 255>>
B_GIF8 == <<71, 73, 70, 56>>
B_BM   == <<66, 77>>
B_RIFF == <<82, 73, 70, 70>>
B_WEBP == <<87, 69, 66, 80>>

ImageHeads ==
    {<<>>, B_PNG, <<137, 80, 78>>, B_JPG, <<255, 216>>, B_GIF8, <<71, 73, 70>>,
     B_BM, <<66>>, <<77, 66>>, B_RIFF, <<82, 73, 70>>, <<0>>}

ImageTails == {<<>>, B_WEBP, <<87, 69, 66>>, B_WEBP \o <<0>>, B_PNG}

ImagePayloads ==
    {head \o [i \in 1..n |-> 0] \o tail :
        head \in ImageHeads, n \in 0..MaxFill, tail \in ImageTails}

InitImage ==
    /\ clauses = <<>>
    /\ context = NewContext
    /\ counters = NewCounters
    /\ files = {}
    /\ log = <<>>
    /\ source = {}
    /\ todo = <<>>
    /\ fed = <<>>
    /\ trail = <<>>
    /\ roots = <<>>
    /\ builds = 0
    /\ chunks = <<>>
    /\ result = NoResult
    /\ pc = "call"
    /\ ChunkStageIdle
    /\ batch = <<>>
    /\ objects = <<>>
    /\ converters = <<>>
    /\ call \in {[fn |-> "detect_image_format", arg |-> data, ret |-> None] :
                    data \in ImagePayloads}

\* ext = detect_image_format(data)
CallDetectImageFormat ==
    /\ pc = "call"
    /\ call.fn = "detect_image_format"
    /\ call' = [call EXCEPT !.ret = DetectImageFormat(call.arg)]
    /\ pc' = "returned"
    /\ UNCHANGED schemaVars
    /\ UNCHANGED chunkVars
    /\ UNCHANGED <<batch, objects, converters>>

NextImage == CallDetectImageFormat

SpecImage == InitImage /\ [][NextImage]_vars

\* signature sig is in data from offset at on
HasBytesAt(data, at, sig) ==
    /\ at + Len(sig) <= Len(data)
    /\ \A k \in 1..Len(sig) : data[at + k] = sig[k]

\* C15: detect_image_format is total and deterministic: for every byte
\* sequence, the empty one included, it returns exactly one tag of .png,
\* .jpg, .gif, .bmp, .webp, .bin: the tag of the magic-byte signature the
\* data starts with (.webp asks for RIFF at offset 0 and WEBP at offset 8,
\* so for 12 bytes at least), and .bin when there is none.
C15_DetectImageFormatIsTotal ==
    pc = "returned" =>
        /\ call.ret \in {E_png, E_jpg, E_gif, E_bmp, E_webp, E_bin}
        /\ call.ret = E_png <=> HasBytesAt(call.arg, 0, B_PNG)
        /\ call.ret = E_jpg <=> HasBytesAt(call.arg, 0, B_JPG)
        /\ call.ret = E_gif <=> HasBytesAt(call.arg, 0, B_GIF8)
        /\ call.ret = E_bmp <=> HasBytesAt(call.arg, 0, B_BM)
        /\ call.ret = E_webp <=>
              HasBytesAt(call.arg, 0, B_RIFF) /\ HasBytesAt(call.arg, 8, B_WEBP)
        /\ call.arg = <<>> => call.ret = E_bin

\* a payload of twelve bytes, RIFF, four bytes, WEBP, was found to be .webp
C15_Witness ==
    /\ pc = "returned"
    /\ call.arg = B_RIFF \o <<0, 0, 0, 0>> \o B_WEBP
    /\ call.ret = E_webp

(***************************************************************************)
(* Claims about the handlers of text blocks.                               *)
(***************************************************************************)
\* the step handles a Text or a ListItem block with a non-empty cleaned
\* text while a clause is open
TextOrListItemStep ==
    /\ BlockStep
    /\ todo[1].is_dict
    /\ todo[1].block_type \in {"Text", "ListItem"}
    /\ StripHtml(todo[1].html) # <<>>
    /\ HasCurrentClause(Machine)

\* what the internal references of a clause gain from the references
\* extracted from text: the identifier for a clause reference, the
\* reference itself for a table or a figure
ReferencesGained(text) ==
    {IF StartsWith(ref, P_clause) THEN SubSeq(ref, Len(P_clause) + 1, Len(ref)) ELSE ref :
        ref \in ExtractReferences(text)}

\* C16: every Text block and every ListItem block processed while a clause
\* is open runs requirement extraction and reference extraction on its
\* cleaned text and appends the results to the requirements and to the
\* internal references of that clause.
C16_TextAndListItemExtractBoth ==
    [][TextOrListItemStep =>
          LET c == IndexOf(clauses, context.current_clause_id)
              text == StripHtml(todo[1].html)
          IN  /\ Added(clauses[c].requirements, clauses'[c].requirements)
                    = ExtractRequirements(text)
              /\ IsPrefix(clauses[c].references.internal,
                          clauses'[c].references.internal)
              /\ Range(Added(clauses[c].references.internal,
                             clauses'[c].references.internal))
                    = ReferencesGained(text)]_vars

(***************************************************************************)
(* Several calls of convert_file in progress at once, one for each         *)
(* document, their process_block steps interleaved.  The objects a call    *)
(* creates live at an address of the heap; the files written and the       *)
(* warnings printed are shared by all calls.                               *)
(***************************************************************************)
\* process_block on one block, handler only: the states it can leave the
\* processor in, one for each way the writes can fail and for each order
\* list(set(...)) can give
Handle(m, block) ==
    IF ~block.is_dict \/ IsHeaderFooter(block) THEN {m}
    ELSE CASE block.block_type = "SectionHeader" -> {SectionHeader(m, block)}
           [] block.block_type = "Caption" -> {Caption(m, block)}
           [] block.block_type = "Table" -> {Table(m, block)}
           [] block.block_type = "Picture" ->
                {Picture(m, block, failing) : failing \in SUBSET (1..Len(block.images))}
           [] block.block_type = "Text" ->
                {Text(m, block, refs) :
                    refs \in Orderings(ExtractReferences(StripHtml(block.html)))}
           [] block.block_type = "Footnote" -> {Footnote(m, block)}
           [] block.block_type = "ListItem" -> {ListItem(m, block)}
           [] OTHER -> {m}

\* the blocks process_block goes on with after the handler of block
Descend(block) ==
    IF ~block.is_dict \/ IsHeaderFooter(block) THEN <<>> ELSE Children(block)

\* clauses = OrderedDict(); context = ProcessingContext();
\* counters = ProcessingCounters()
NewObjects == [clauses |-> <<>>, context |-> NewContext, counters |-> NewCounters]

\* A mutated allocation: every call is given the objects at address 1.
AllocateFirst(heap) == 1

\* the address of the objects a constructor call returns: one not in use
Allocate(heap) == Len(heap) + 1

\* the heap with obj at address addr
Store(heap, addr, obj) ==
    IF addr > Len(heap) THEN Append(heap, obj) ELSE [heap EXCEPT ![addr] = obj]

\* the BlockProcessor of call k
ProcessorOf(k) ==
    [clauses |-> objects[converters[k].address].clauses,
     context |-> objects[converters[k].address].context,
     counters |-> objects[converters[k].address].counters,
     files |-> files, log |-> log, doc_id |-> converters[k].document_id]

\* build_clause_hierarchy, flatten_clauses and the result of convert_file
ResultOf(doc_id, cs, cnt) ==
    LET h == BuildClauseHierarchy(cs) IN
    BuildResult(doc_id, h.clauses, FlattenClauses(h.clauses, h.roots, doc_id), cnt)

\* convert_file up to the creation of the processor
ConvertStart(k) ==
    /\ pc = "convert"
    /\ converters[k].state = "new"
    /\ objects' = Store(objects, Allocate(objects), NewObjects)
    /\ converters' = [converters EXCEPT ![k].state = "process",
                                        ![k].address = Allocate(objects),
                                        ![k].todo = converters[k].children]
    /\ UNCHANGED <<clauses, context, counters, files, log, source, todo, fed, trail,
                   roots, builds, chunks, result, pc, batch, call>>
    /\ UNCHANGED chunkVars

\* process_block of call k on the next block of its document
ConvertBlock(k) ==
    /\ pc = "convert"
    /\ converters[k].state = "process"
    /\ converters[k].todo # <<>>
    /\ \E m \in Handle(ProcessorOf(k), converters[k].todo[1]) :
          /\ objects' = [objects EXCEPT ![converters[k].address] =
                            [clauses |-> m.clauses, context |-> m.context,
                             counters |-> m.counters]]
          /\ files' = m.files
          /\ log' = m.log
    /\ converters' = [converters EXCEPT ![k].todo =
                         Descend(converters[k].todo[1]) \o Tail(converters[k].todo)]
    /\ UNCHANGED <<clauses, context, counters, source, todo, fed, trail,
                   roots, builds, chunks, result, pc, batch, call>>
    /\ UNCHANGED chunkVars

\* the rest of convert_file for call k
ConvertFinish(k) ==
    /\ pc = "convert"
    /\ converters[k].state = "process"
    /\ converters[k].todo = <<>>
    /\ objects' = [objects EXCEPT ![converters[k].address].clauses =
                      BuildClauseHierarchy(@).clauses]
    /\ converters' = [converters EXCEPT
                         ![k].state = "done",
                         ![k].result = ResultOf(converters[k].document_id,
                                                objects[converters[k].address].clauses,
                                                objects[converters[k].address].counters)]
    /\ UNCHANGED <<clauses, context, counters, files, log, source, todo, fed, trail,
                   roots, builds, chunks, result, pc, batch, call>>
    /\ UNCHANGED chunkVars

\* path.stem of the input files
FileStems == <<DocId, StdId, RefId, <<"a", "u", "x">>, <<"e", "x", "t">> >>

\* the documents of a run
RunDocIds == SubSeq(FileStems, 1, MaxDocs)

\* the children of the input documents
RunChildren ==
    {<<H_6_1_Test_Methods, C_Figure_2, P_Png>>,
     <<P_Png, H_A_2, H_Environmental_Tests>>,
     <<H_6_General, T_Refs, Tb_Inline>>,
     <<Page(<<H_A_2_General, T_Shall>>)>>}

InitConvert ==
    /\ clauses = <<>>
    /\ context = NewContext
    /\ counters = NewCounters
    /\ files = {}
    /\ log = <<>>
    /\ source = {}
    /\ todo = <<>>
    /\ fed = <<>>
    /\ trail = <<>>
    /\ roots = <<>>
    /\ builds = 0
    /\ chunks = <<>>
    /\ result = NoResult
    /\ pc = "convert"
    /\ ChunkStageIdle
    /\ batch = <<>>
    /\ objects = <<>>
    /\ converters \in {[k \in 1..MaxDocs |->
                           [document_id |-> RunDocIds[k], children |-> ch[k],
                            state |-> "new", address |-> 0, todo |-> <<>>,
                            result |-> NoResult]] :
                        ch \in [1..MaxDocs -> RunChildren]}
    /\ call = <<>>

NextConvert ==
    \E k \in 1..MaxDocs : ConvertStart(k) \/ ConvertBlock(k) \/ ConvertFinish(k)

SpecConvert == InitConvert /\ [][NextConvert]_vars

\* process_block on the blocks of a list, one after the other, from the
\* processor states M on
RECURSIVE Outcomes(_, _)
Outcomes(M, blocks) ==
    IF blocks = <<>> THEN M
    ELSE Outcomes(UNION {Handle(m, blocks[1]) : m \in M},
                  Descend(blocks[1]) \o Tail(blocks))

\* the results convert_file can return for a document processed alone
ConvertAlone(doc_id, children) ==
    {ResultOf(doc_id, m.clauses, m.counters) :
        m \in Outcomes({[clauses |-> <<>>, context |-> NewContext,
                         counters |-> NewCounters, files |-> {}, log |-> <<>>,
                         doc_id |-> doc_id]}, children)}

\* C17: each document is processed with a ProcessingContext, counters and
\* a clause map of its own: the calls in progress hold different objects, a
\* step of one call leaves the objects of every other call as they are,
\* and however the steps of the calls interleave each call returns a
\* result that processing its document alone can return.
C17_DocumentsAreIndependent ==
    /\ [](\A j, k \in 1..MaxDocs :
            (j # k /\ converters[j].state # "new" /\ converters[k].state # "new")
               => converters[j].address # converters[k].address)
    /\ [][\A k \in 1..MaxDocs :
            (converters[k].state # "new" /\ converters'[k] = converters[k])
               => objects'[converters[k].address] = objects[converters[k].address]]_vars
    /\ [](\A k \in 1..MaxDocs :
            converters[k].state = "done" =>
               converters[k].result
                  \in ConvertAlone(converters[k].document_id, converters[k].children))

\* two calls are in progress, each two blocks into its document: the first
\* has clause 6.1 open and a figure caption pending, the second has saved
\* a misc image and holds the pending number A.2
C17_Witness ==
    /\ converters[1].state = "process" /\ Len(converters[1].todo) = 1
    /\ converters[2].state = "process" /\ Len(converters[2].todo) = 1
    /\ ProcessorOf(1).context.current_clause_id = K_6_1
    /\ ProcessorOf(1).context.pending_caption = <<W_Figure, K_2, W_Setup>>
    /\ ProcessorOf(1).counters.total_images = 0
    /\ ProcessorOf(2).context.current_clause_id = None
    /\ ProcessorOf(2).context.pending_number = K_A_2
    /\ ProcessorOf(2).counters.misc_images = 1
    /\ ProcessorOf(2).clauses = <<>>

(***************************************************************************)
(* The batch entry points of the schema stage: main and build_schema loop  *)
(* over the input files and call convert_file on each.  An input file      *)
(* either parses (json.loads returns its children) or does not (json.loads *)
(* raises).                                                                *)
(***************************************************************************)
S_final_schema == <<"_", "f", "i", "n", "a", "l", "_", "s", "c", "h", "e", "m", "a",
                    ".", "j", "s", "o", "n">>

\* the file the loop is at
CurrentFile == batch.json_files[batch.next]

InBatchLoop ==
    /\ pc = "batch"
    /\ batch.state = "running"
    /\ batch.next <= Len(batch.json_files)

\* if not json_files: main prints and returns, build_schema raises
\* HTTPException(404)
BatchNoFiles ==
    /\ pc = "batch"
    /\ batch.state = "running"
    /\ batch.json_files = <<>>
    /\ batch' = [batch EXCEPT !.state = IF batch.entry = "main" THEN "returned"
                                        ELSE "raised"]
    /\ UNCHANGED schemaVars
    /\ UNCHANGED chunkVars
    /\ UNCHANGED <<pc, objects, converters, call>>

\* schema = convert_file(file); out_path.write_text(...)
BatchConvert ==
    /\ InBatchLoop
    /\ CurrentFile.parses
    /\ \E schema \in ConvertAlone(CurrentFile.stem, CurrentFile.children) :
          batch' = [batch EXCEPT
                       !.written = Append(@, [name |-> CurrentFile.stem \o S_final_schema,
                                              schema |-> schema]),
                       !.next = @ + 1]
    /\ UNCHANGED schemaVars
    /\ UNCHANGED chunkVars
    /\ UNCHANGED <<pc, objects, converters, call>>

\* main: convert_file raises, except Exception prints [ERROR] and the loop
\* goes on
BatchReportError ==
    /\ InBatchLoop
    /\ batch.entry = "main"
    /\ ~CurrentFile.parses
    /\ batch' = [batch EXCEPT !.reported = Append(@, CurrentFile.stem), !.next = @ + 1]
    /\ UNCHANGED schemaVars
    /\ UNCHANGED chunkVars
    /\ UNCHANGED <<pc, objects, converters, call>>

\* build_schema: convert_file raises and nothing catches it, the request
\* ends with the exception
BatchRaise ==
    /\ InBatchLoop
    /\ batch.entry = "build_schema"
    /\ ~CurrentFile.parses
    /\ batch' = [batch EXCEPT !.state = "raised"]
    /\ UNCHANGED schemaVars
    /\ UNCHANGED chunkVars
    /\ UNCHANGED <<pc, objects, converters, call>>

\* the loop is over
BatchReturn ==
    /\ pc = "batch"
    /\ batch.state = "running"
    /\ batch.json_files # <<>>
    /\ batch.next > Len(batch.json_files)
    /\ batch' = [batch EXCEPT !.state = "returned"]
    /\ UNCHANGED schemaVars
    /\ UNCHANGED chunkVars
    /\ UNCHANGED <<pc, objects, converters, call>>

\* what a file of the input directory can hold
BatchFileKinds ==
    {<<FALSE, <<>> >>,
     <<TRUE, <<H_6_1_Test_Methods, C_Figure_2, P_Png>> >>,
     <<TRUE, <<H_6_General, T_Refs, Tb_Inline>> >>}

\* list(OUTPUT_JSON_DIR.glob("*.json")): at most MaxFiles files
BatchFiles ==
    UNION {{[i \in 1..n |-> [stem |-> FileStems[i], parses |-> kinds[i][1],
                             children |-> kinds[i][2]]] :
               kinds \in [1..n -> BatchFileKinds]} : n \in 0..MaxFiles}

InitBatch ==
    /\ clauses = <<>>
    /\ context = NewContext
    /\ counters = NewCounters
    /\ files = {}
    /\ log = <<>>
    /\ source = {}
    /\ todo = <<>>
    /\ fed = <<>>
    /\ trail = <<>>
    /\ roots = <<>>
    /\ builds = 0
    /\ chunks = <<>>
    /\ result = NoResult
    /\ pc = "batch"
    /\ ChunkStageIdle
    /\ batch \in {[entry |-> entry, json_files |-> fs, next |-> 1, written |-> <<>>,
                    reported |-> <<>>, state |-> "running"] :
                      entry \in {"main", "build_schema"}, fs \in BatchFiles}
    /\ objects = <<>>
    /\ converters = <<>>
    /\ call = <<>>

NextBatch ==
    \/ BatchNoFiles
    \/ BatchConvert
    \/ BatchReportError
    \/ BatchRaise
    \/ BatchReturn

SpecBatch == InitBatch /\ [][NextBatch]_vars

\* the names of the schema files written
WrittenNames == {batch.written[i].name : i \in 1..Len(batch.written)}

\* C18: when the input of a document cannot be parsed, processing is
\* aborted for that document only: once the batch has ended, the error was
\* reported for that document, and the schema of every document that
\* parses was written, whichever entry point ran the batch.
C18_ParseErrorAbortsOneDocumentOnly ==
    (pc = "batch" /\ batch.state # "running" /\ batch.json_files # <<>>) =>
        \A i \in 1..Len(batch.json_files) :
           LET file == batch.json_files[i] IN
           /\ file.parses => (file.stem \o S_final_schema) \in WrittenNames
           /\ ~file.parses => file.stem \in Range(batch.reported)


(***************************************************************************)
(* The order of the traversal and the clause a block is attached to.       *)
(***************************************************************************)
ContentBlockTypes == {"Text", "Footnote", "ListItem", "Caption", "Table", "Picture"}

\* what a SectionHeader of the trail does to the pair <<pending number,
\* clause opened last>>; any other block leaves the pair as it is
AfterHeader(b, text, info, pair) ==
    IF ~b.is_dict \/ b.block_type # "SectionHeader" \/ text = <<>> THEN pair
    ELSE IF info # None
         THEN IF info[2] # NoneText THEN <<None, info[1]>>
              ELSE <<info[1], pair[2]>>
    ELSE IF pair[1] # None THEN <<None, pair[1]>>
    ELSE pair

RECURSIVE OpenedAlong(_, _, _)
OpenedAlong(tr, i, pair) ==
    IF i > Len(tr) THEN pair[2]
    ELSE OpenedAlong(tr, i + 1,
                     AfterHeader(tr[i], StripHtml(tr[i].html),
                                 ExtractClauseInfo(StripHtml(tr[i].html)), pair))

\* the identifier of the clause the most recent clause-opening SectionHeader
\* of tr opened, None when no header of tr opened a clause
MostRecentlyOpened(tr) == OpenedAlong(tr, 1, <<None, None>>)

\* process_block is about to run the handler of a content-bearing block
ContentStep ==
    /\ BlockStep
    /\ todo[1].is_dict
    /\ todo[1].block_type \in ContentBlockTypes

IsPlainCaption(text) ==
    /\ text # <<>>
    /\ ExtractTableNumber(text) = None
    /\ ExtractFigureNumber(text) = None

\* what block b carries went to the clause: old is the clause before the
\* handler ran, new the clause after it, failed the number of images of b
\* that were skipped with a warning
AttachedTo(b, text, old, new, failed) ==
    CASE b.block_type = "Text" ->
            text # <<>> => new.content = Append(old.content, [type |-> "paragraph", text |-> text])
      [] b.block_type = "Footnote" ->
            text # <<>> => new.content = Append(old.content, [type |-> "footnote", text |-> text])
      [] b.block_type = "ListItem" ->
            text # <<>> => new.content = Append(old.content, [type |-> "list_item", text |-> text])
      [] b.block_type = "Caption" ->
            IsPlainCaption(text) =>
                new.content = Append(old.content, [type |-> "caption", text |-> text])
      [] b.block_type = "Table" ->
            b.html # <<>> =>
                /\ Len(new.tables) = Len(old.tables) + 1
                /\ new.tables[Len(new.tables)].html = b.html
      [] b.block_type = "Picture" ->
            /\ Len(new.figures) = Len(old.figures) + Len(b.images) - failed
            /\ \A i \in 1..(Len(b.images) - failed) :
                  new.figures[Len(old.figures) + i].original_key
                      \in {b.images[j].key : j \in 1..Len(b.images)}

HeaderInfo == ExtractClauseInfo(StripHtml(todo[1].html))

\* process_block is about to run process_section_header on a header whose
\* cleaned text parses into an identifier and a non-empty title
TitledHeaderStep ==
    /\ BlockStep
    /\ todo[1].is_dict
    /\ todo[1].block_type = "SectionHeader"
    /\ HeaderInfo # None
    /\ HeaderInfo[2] # NoneText
    /\ HeaderInfo[2] # <<>>

\* C20 as stated: a SectionHeader whose cleaned text parses into an
\* identifier and a non-empty title opens the clause with that identifier
\* and title, makes it the current clause, and clears the pending caption.
C20_TitledHeaderOpensClauseWithItsTitle ==
    [][TitledHeaderStep =>
          /\ HeaderInfo[1] \in ClauseIds(clauses')
          /\ ClauseAt(clauses', HeaderInfo[1]).title = HeaderInfo[2]
          /\ context'.current_clause_id = HeaderInfo[1]
          /\ context'.pending_caption = NoneText]_vars

\* C20, amended: such a header makes the clause with its identifier the
\* current clause, whatever clause was current, and clears the pending
\* caption; when the identifier is not yet in the clause map the clause is
\* added to it, empty, with the header's title, and when it already is the
\* clause map is left as it was (the clause keeps the title it had).
C20_TitledHeaderMakesClauseCurrent ==
    [][TitledHeaderStep =>
          /\ HeaderInfo[1] \notin ClauseIds(clauses) =>
                clauses' = Append(clauses, NewClause(HeaderInfo[1], HeaderInfo[2]))
          /\ HeaderInfo[1] \in ClauseIds(clauses) => clauses' = clauses
          /\ context'.current_clause_id = HeaderInfo[1]
          /\ context'.pending_caption = NoneText]_vars

\* "6.1 Test Methods", the caption "Table 3 Limits" and "6 General" were
\* handled: clause 6 was added with the title General and replaced 6.1 as
\* the current clause, and the caption that was pending is gone
C20_Witness ==
    /\ trail = <<Node(H_6_1_Test_Methods), Node(C_Table_3), Node(H_6_General)>>
    /\ [i \in 1..2 |-> clauses[i].id] = <<K_6_1, K_6>>
    /\ ClauseAt(clauses, K_6).title = <<W_General>>
    /\ context.current_clause_id = K_6
    /\ context.pending_caption = NoneText


(***************************************************************************)
(* SectionHeaders that open nothing.                                       *)
(***************************************************************************)
\* process_block is about to run process_section_header on a header whose
\* cleaned text is one identifier and nothing else
BareHeaderStep ==
    /\ BlockStep
    /\ IsBareHeader(todo[1])

\* C21: a SectionHeader whose cleaned text is only an identifier stores
\* that identifier as the pending number and opens nothing: the clause map,
\* the current clause id and the pending caption are unchanged.
C21_BareHeaderOnlySetsPendingNumber ==
    [][BareHeaderStep =>
          /\ context'.pending_number = StripHtml(todo[1].html)[1]
          /\ clauses' = clauses
          /\ context'.current_clause_id = context.current_clause_id
          /\ context'.pending_caption = context.pending_caption]_vars

\* "6.1 Test Methods", the caption "Table 3 Limits" and the header "A.2"
\* were handled: A.2 is pending, 6.1 is still the only and the current
\* clause, the caption is still pending
C21_Witness ==
    /\ trail = <<Node(H_6_1_Test_Methods), Node(C_Table_3), Node(H_A_2)>>
    /\ context = [current_clause_id |-> K_6_1, pending_number |-> K_A_2,
                  pending_caption |-> <<W_Table, K_3, W_Limits>>]
    /\ ClauseIds(clauses) = {K_6_1}

\* process_block is about to run process_section_header on a header whose
\* cleaned text has no leading identifier, no number being pending
IgnoredHeaderStep ==
    /\ BlockStep
    /\ todo[1].is_dict
    /\ todo[1].block_type = "SectionHeader"
    /\ ExtractClauseInfo(StripHtml(todo[1].html)) = None
    /\ context.pending_number = None

\* C22: a SectionHeader whose text has no leading identifier, processed
\* while no number is pending, is ignored: the clause map, the current
\* clause id, the pending number, the pending caption and all counters are
\* unchanged.
C22_HeaderWithoutIdentifierIsIgnored ==
    [][IgnoredHeaderStep =>
          /\ clauses' = clauses
          /\ context' = context
          /\ counters' = counters]_vars

\* "6.1 Test Methods", the caption "Table 3 Limits" and the header
\* "Environmental Tests" were handled: 6.1 is still the only and the current
\* clause, nothing is pending but the caption
C22_Witness ==
    /\ trail = <<Node(H_6_1_Test_Methods), Node(C_Table_3), Node(H_Environmental_Tests)>>
    /\ context = [current_clause_id |-> K_6_1, pending_number |-> None,
                  pending_caption |-> <<W_Table, K_3, W_Limits>>]
    /\ ClauseIds(clauses) = {K_6_1}
    /\ ClauseAt(clauses, K_6_1).title = <<W_Test, W_Methods>>


(***************************************************************************)
(* Opening an identifier a second time.                                    *)
(***************************************************************************)
\* the identifier process_section_header is about to open on the head of
\* todo, None when the header opens nothing
OpenedId ==
    IF StripHtml(todo[1].html) = <<>> THEN None
    ELSE IF HeaderInfo # None
         THEN IF HeaderInfo[2] # NoneText THEN HeaderInfo[1] ELSE None
    ELSE context.pending_number

\* process_block is about to run process_section_header on a header that
\* opens an identifier the clause map already holds
ReopenStep ==
    /\ BlockStep
    /\ todo[1].is_dict
    /\ todo[1].block_type = "SectionHeader"
    /\ OpenedId # None
    /\ OpenedId \in ClauseIds(clauses)

\* process_block is about to run process_text on a Text with text, a clause
\* being current
TextInClauseStep ==
    /\ BlockStep
    /\ todo[1].is_dict
    /\ todo[1].block_type = "Text"
    /\ StripHtml(todo[1].html) # <<>>
    /\ context.current_clause_id \in ClauseIds(clauses)

\* C23: opening an identifier that already is in the clause map is
\* idempotent: the existing clause becomes the current clause, the clause
\* map gains no entry and the existing clause keeps all its content,
\* tables, figures, requirements and references (the clause map is as it
\* was); content arriving afterwards is appended to that same clause, after
\* what it already held.
C23_ReopeningIsIdempotent ==
    /\ [][ReopenStep =>
            /\ clauses' = clauses
            /\ context'.current_clause_id = OpenedId]_vars
    /\ [][TextInClauseStep =>
            /\ Len(clauses') = Len(clauses)
            /\ ClauseAt(clauses', context.current_clause_id).content
                  = Append(ClauseAt(clauses, context.current_clause_id).content,
                           [type |-> "paragraph", text |-> StripHtml(todo[1].html)])]_vars

\* 6.1 was opened and got a Text, A.2 was opened by a merge, then "6.1 Test
\* Methods" came again with another Text: there are still two clauses, 6.1
\* is current and holds both paragraphs
C23_Witness ==
    /\ todo = <<>>
    /\ fed = <<Page(<<H_6_1_Test_Methods, T_Shall>>),
               Page(<<ListGroup(<<H_A_2>>), PageHeader(<<>>), H_Environmental_Tests>>),
               Page(<<H_6_1_Test_Methods, T_Shall>>)>>
    /\ Len(trail) = 11
    /\ [i \in 1..Len(clauses) |-> clauses[i].id] = <<K_6_1, K_A_2>>
    /\ context.current_clause_id = K_6_1
    /\ [i \in 1..Len(clauses[1].content) |-> clauses[1].content[i].type]
          = <<"paragraph", "paragraph">>
    /\ Len(clauses[1].requirements) = 2


(***************************************************************************)
(* Caption blocks.                                                         *)
(***************************************************************************)
\* process_block is about to run process_caption on a Caption with text
CaptionStep ==
    /\ BlockStep
    /\ todo[1].is_dict
    /\ todo[1].block_type = "Caption"
    /\ StripHtml(todo[1].html) # <<>>

\* the clause map cs with item appended to the content of clause cid
WithContent(cs, cid, item) ==
    [cs EXCEPT ![IndexOf(cs, cid)].content = Append(@, item)]

\* C24: a Caption whose cleaned text holds a table or figure number is
\* stored as the pending caption and adds no ContentItem to any clause; any
\* other Caption with text leaves the pending caption as it is and is
\* appended as a caption ContentItem to the current clause, and to no
\* other (to none when no clause is current).
C24_NumberedCaptionPendsOtherIsContent ==
    [][CaptionStep =>
          IF IsPlainCaption(StripHtml(todo[1].html))
          THEN /\ context' = context
               /\ clauses' =
                     IF context.current_clause_id \in ClauseIds(clauses)
                     THEN WithContent(clauses, context.current_clause_id,
                                      [type |-> "caption",
                                       text |-> StripHtml(todo[1].html)])
                     ELSE clauses
          ELSE /\ context'.pending_caption = StripHtml(todo[1].html)
               /\ clauses' = clauses]_vars

\* "6.1 Test Methods", the caption "Table 3 Limits" and the caption "Notes"
\* were handled: the first caption is pending, the second is the only
\* content of clause 6.1
C24_Witness ==
    /\ trail = <<Node(H_6_1_Test_Methods), Node(C_Table_3), Node(C_Notes)>>
    /\ context.pending_caption = <<W_Table, K_3, W_Limits>>
    /\ ClauseAt(clauses, K_6_1).content = <<[type |-> "caption", text |-> <<W_Notes>>]>>


(***************************************************************************)
(* Table blocks.                                                           *)
(***************************************************************************)
\* process_block is about to run process_table
TableStep ==
    /\ BlockStep
    /\ todo[1].is_dict
    /\ todo[1].block_type = "Table"

\* C25 as stated: processing any Table block increments the total-table
\* counter by exactly one and leaves the pending caption cleared, whatever
\* the block's other fields contain.
C25_EveryTableIsCounted ==
    [][TableStep =>
          /\ counters'.total_tables = counters.total_tables + 1
          /\ context'.pending_caption = NoneText]_vars

\* C25, amended: processing a Table block whose html is not empty
\* increments the total-table counter by exactly one and leaves the pending
\* caption cleared, whatever its other fields contain and whether a clause
\* is open or not; a Table block without html changes nothing (it is not
\* counted and a pending caption stays pending).
C25_TableWithHtmlIsCounted ==
    [][TableStep =>
          IF todo[1].html # <<>>
          THEN /\ counters'.total_tables = counters.total_tables + 1
               /\ context'.pending_caption = NoneText
          ELSE ProcessorUnchanged]_vars

\* a table before any clause, then the caption "Table 3 Limits" and a table
\* without html, then a table with an inline caption were handled: two
\* tables are counted and no caption is pending
C25_Witness ==
    /\ trail = <<Node(Tb_Plain), Node(C_Table_3), Node(Tb_Empty), Node(Tb_Inline)>>
    /\ counters.total_tables = 2
    /\ context.pending_caption = NoneText
    /\ clauses = <<>>

\* pending_caption or the inline caption, as process_table is about to see
\* them
TableCaption ==
    IF context.pending_caption # NoneText /\ context.pending_caption # <<>>
    THEN context.pending_caption
    ELSE StripHtml(todo[1].caption)

\* the TableEntry process_table is about to build
TableEntry ==
    [html |-> todo[1].html,
     number |-> IF TableCaption # <<>> THEN ExtractTableNumber(TableCaption) ELSE None,
     caption |-> IF TableCaption # <<>> THEN TableCaption ELSE NoneText,
     rows |-> todo[1].rows]

MiscUnchanged ==
    /\ counters'.misc_images = counters.misc_images
    /\ counters'.misc_image_counter = counters.misc_image_counter
    /\ counters'.misc_image_metadata = counters.misc_image_metadata
    /\ files' = files

\* the clause map cs with table appended to the tables of clause cid
WithTable(cs, cid, table) ==
    [cs EXCEPT ![IndexOf(cs, cid)].tables = Append(@, table)]

\* C26 as stated: a Table block met while no clause is open is dropped (no
\* TableEntry in any clause, nothing recorded in the misc area); a Table
\* block met while a clause is open adds exactly one TableEntry to that
\* clause and to no other, with the pending caption in preference to the
\* inline caption.
C26_TableGoesToOpenClauseOrNowhere ==
    [][TableStep =>
          /\ MiscUnchanged
          /\ clauses' =
                IF context.current_clause_id \in ClauseIds(clauses)
                THEN WithTable(clauses, context.current_clause_id, TableEntry)
                ELSE clauses]_vars

\* C26, amended: a Table block met while no clause is open is dropped (no
\* TableEntry in any clause, nothing recorded in the misc area); a Table
\* block whose html is not empty, met while a clause is open, adds exactly
\* one TableEntry to that clause and to no other, with the pending caption
\* in preference to the inline caption; a Table block without html adds
\* nothing to any clause.
C26_TableWithHtmlGoesToOpenClauseOrNowhere ==
    [][TableStep =>
          /\ MiscUnchanged
          /\ clauses' =
                IF context.current_clause_id \in ClauseIds(clauses) /\ todo[1].html # <<>>
                THEN WithTable(clauses, context.current_clause_id, TableEntry)
                ELSE clauses]_vars

\* a table before any clause, then "6.1 Test Methods", the caption "Table 3
\* Limits" and a table whose inline caption is "Table 2" were handled: the
\* first table is nowhere, the second is the only table of clause 6.1, under
\* the pending caption and the number 3
C26_Witness ==
    /\ trail = <<Node(Tb_Plain), Node(H_6_1_Test_Methods), Node(C_Table_3), Node(Tb_Inline)>>
    /\ counters.total_tables = 2
    /\ counters.misc_image_metadata = <<>>
    /\ Len(clauses) = 1
    /\ ClauseAt(clauses, K_6_1).tables
          = <<[html |-> <<Tag_table>>, number |-> K_3,
               caption |-> <<W_Table, K_3, W_Limits>>, rows |-> None]>>


(***************************************************************************)
(* The number of a FigureEntry.                                            *)
(***************************************************************************)
\* the figure number the caption a FigureEntry carries gives, None when it
\* carries no caption or the caption has no figure pattern
CaptionFigureNumber(f) ==
    IF f.caption = <<>> \/ f.caption = NoneText THEN None
    ELSE ExtractFigureNumber(f.caption)

\* C27: a FigureEntry attached to a clause carries the number its caption's
\* figure pattern gives when there is one, and otherwise the clause's
\* sequential figure index, the one its file name carries: the index is 1
\* for the first image saved under the clause and increases by one for each
\* image of the clause, the images numbered by their caption included (an
\* image whose file could not be written has used up its index, so the
\* index of the j-th FigureEntry is j unless a write failed before it, and
\* never less).
C27_FigureNumberFromCaptionOrClauseIndex ==
    /\ [](\A i \in 1..Len(clauses) : \A j \in 1..Len(clauses[i].figures) :
            IF CaptionFigureNumber(clauses[i].figures[j]) # None
            THEN clauses[i].figures[j].number
                    = StrNumber(CaptionFigureNumber(clauses[i].figures[j]))
            ELSE /\ clauses[i].figures[j].number.is_int
                 /\ clauses[i].figures[j].number.int >= j
                 /\ clauses[i].figures[j].number.int
                       <= FigureCounter(counters.figure_counters, clauses[i].id)
                 /\ clauses[i].figures[j].path
                       = ClauseImagePath(DocId, clauses[i].id,
                                         clauses[i].figures[j].number.int,
                                         ImgRef(clauses[i].figures[j].original_key),
                                         <<".">> \o clauses[i].figures[j].format)
                 /\ FigureCounter(counters.figure_counters, clauses[i].id)
                       = Len(clauses[i].figures)
                    => clauses[i].figures[j].number.int = j)
    /\ [][(PictureStep /\ context.current_clause_id \in ClauseIds(clauses)) =>
            LET cid == context.current_clause_id
                saved == Len(ClauseAt(clauses', cid).figures)
                            - Len(ClauseAt(clauses, cid).figures)
                used == FigureCounter(counters'.figure_counters, cid)
                            - FigureCounter(counters.figure_counters, cid)
            IN  /\ saved <= used
                /\ used <= Len(todo[1].images)
                /\ Len(log') = Len(log) => saved = Len(todo[1].images)
                /\ \A c \in DOMAIN counters.figure_counters \ {cid} :
                      counters'.figure_counters[c] = counters.figure_counters[c]]_vars

\* under clause 6.1 an image was saved with the pending caption "Figure 2
\* Setup", and of the next Picture the image that decodes was saved without
\* caption: the first FigureEntry is numbered "2" by its caption, the second
\* 2 by the index of the clause
C27_Witness ==
    /\ trail = <<Node(H_6_1_Test_Methods), Node(C_Figure_2), Node(P_Png), Node(P_Bad_Jpg)>>
    /\ Len(log) = 1
    /\ Len(ClauseAt(clauses, K_6_1).figures) = 2
    /\ ClauseAt(clauses, K_6_1).figures[1].number = StrNumber(K_2)
    /\ ClauseAt(clauses, K_6_1).figures[2].number = IntNumber(2)
    /\ ClauseAt(clauses, K_6_1).figures[2].caption = <<>>
    /\ counters.figure_counters[K_6_1] = 2


(***************************************************************************)
(* The order of the flattened records.                                     *)
(***************************************************************************)
\* the position of the record of clause cid in chunks
ChunkPos(cid) == CHOOSE k \in 1..Len(chunks) : chunks[k].id = cid

\* the record at position k is below the record at position p in the forest
\* the parent_id fields give (fuel bounds the climb)
RECURSIVE IsBelow(_, _, _)
IsBelow(k, p, fuel) ==
    /\ fuel > 0
    /\ chunks[k].parent_id # None
    /\ \/ chunks[k].parent_id = chunks[p].id
       \/ IsBelow(ChunkPos(chunks[k].parent_id), p, fuel - 1)

\* the identifiers of the clauses of cs whose parent is cid, in the order of
\* the clause map, which is the order build_clause_hierarchy appended them in
ChildIdsAsAppended(cs, cid) ==
    LET kids == SelectSeq(cs, LAMBDA c : c.parent_id = cid)
    IN  [i \in 1..Len(kids) |-> kids[i].id]

\* the identifiers of the records without parent, in the order of chunks
RootRecordIds ==
    LET tops == SelectSeq(chunks, LAMBDA r : r.parent_id = None)
    IN  [i \in 1..Len(tops) |-> tops[i].id]

\* C28: flatten_clauses emits the records in pre-order of the rooted
\* forest: the roots come in the order of the root list, the record of a
\* clause precedes the records of all its descendants, which follow it
\* without any other record in between, siblings come in the order they
\* were appended to the children list of their parent (not re-sorted), and
\* the children_ids of a record is exactly the list of the identifiers of
\* its children in that order, identifiers only.
C28_FlattenIsPreOrder ==
    pc = "flat" =>
        /\ RootRecordIds = roots
        /\ \A q \in 1..Len(chunks) :
              /\ chunks[q].children_ids = ChildIdsAsAppended(clauses, chunks[q].id)
              /\ \A a \in 1..Len(chunks[q].children_ids) :
                    /\ chunks[q].children_ids[a] \in ClauseIds(clauses)
                    /\ chunks[ChunkPos(chunks[q].children_ids[a])].parent_id = chunks[q].id
                    /\ \A b \in (a + 1)..Len(chunks[q].children_ids) :
                          ChunkPos(chunks[q].children_ids[a])
                              < ChunkPos(chunks[q].children_ids[b])
              /\ chunks[q].parent_id # None =>
                    /\ ChunkPos(chunks[q].parent_id) < q
                    /\ \A r \in (ChunkPos(chunks[q].parent_id) + 1)..(q - 1) :
                          IsBelow(r, ChunkPos(chunks[q].parent_id), Len(chunks))

\* the clauses A.2.1, A, A.2, 6, in this order in the clause map, were
\* flattened: the root 6 comes first, then the root A followed by its
\* children A.2.1 and A.2, in the order they were appended in
C28_Witness ==
    /\ pc = "flat"
    /\ [i \in 1..Len(clauses) |-> clauses[i].id] = <<K_A_2_1, K_A, K_A_2, K_6>>
    /\ [k \in 1..Len(chunks) |-> chunks[k].id] = <<K_6, K_A, K_A_2_1, K_A_2>>
    /\ chunks[2].children_ids = <<K_A_2_1, K_A_2>>
    /\ chunks[3].parent_id = K_A


(***************************************************************************)
(* The internal references of a clause.                                    *)
(***************************************************************************)
\* C29: the internal references of a clause form a set: after any sequence
\* of blocks, references.internal of every clause holds no entry twice,
\* even when the same clause, table or figure is mentioned in several text
\* blocks of that clause.
C29_InternalReferencesHaveNoDuplicates ==
    \A i \in 1..Len(clauses) :
        \A a, b \in 1..Len(clauses[i].references.internal) :
            clauses[i].references.internal[a] = clauses[i].references.internal[b]
                => a = b


(***************************************************************************)
(* extract_scope.py: the scan of extract_scope over the blocks of the      *)
(* pages of a document.  Text of this stage is a string, a sequence of     *)
(* characters.  The frame of the call is held in call.                     *)
(***************************************************************************)
\* HTML_TAG_RE.sub("", html): "<", one or more characters other than ">",
\* ">" is removed, from left to right
RECURSIVE RemoveTags(_)
RemoveTags(s) ==
    IF s = <<>> THEN <<>>
    ELSE IF s[1] = "<" /\ Find(s, ">", 2) >= 3
         THEN RemoveTags(SubSeq(s, Find(s, ">", 2) + 1, Len(s)))
    ELSE <<s[1]>> \o RemoveTags(Tail(s))

\* clean_html: tags removed, whitespace normalised
CleanHtml(html) ==
    IF html = <<>> THEN <<>>
    ELSE Strip(Join(SplitWords(RemoveTags(html)), " "))

\* the end of \d+ at position p of s, p - 1 when no digit is there
RECURSIVE DigitsEnd(_, _)
DigitsEnd(s, p) ==
    IF p <= Len(s) /\ IsDigit(s[p]) THEN DigitsEnd(s, p + 1) ELSE p - 1

\* the position after (\d+\.?\s*)? at position q of s, d being the end of
\* the digits there
AfterScopeNumber(s, q, d) ==
    IF d < q THEN q
    ELSE IF d + 1 <= Len(s) /\ s[d + 1] = "." THEN SkipSpaces(s, d + 2)
    ELSE SkipSpaces(s, d + 1)

\* (Scope|SCOPE)\s*< at position w of s
ScopeWordAt(s, w) ==
    /\ w + 4 <= Len(s)
    /\ SubSeq(s, w, w + 4) \in {<<"S", "c", "o", "p", "e">>,
                                <<"S", "C", "O", "P", "E">>}
    /\ SkipSpaces(s, w + 5) <= Len(s)
    /\ s[SkipSpaces(s, w + 5)] = "<"

\* SCOPE_HEADER_RE matches at position p of s:
\* >\s*(\d+\.?\s*)?(Scope|SCOPE)\s*<
ScopeHeaderAt(s, p) ==
    /\ s[p] = ">"
    /\ ScopeWordAt(s, AfterScopeNumber(s, SkipSpaces(s, p + 1),
                                       DigitsEnd(s, SkipSpaces(s, p + 1))))

\* SCOPE_HEADER_RE.search(html)
ScopeHeaderIn(html) == \E p \in 1..Len(html) : ScopeHeaderAt(html, p)

\* CLAUSE_1_RE matches at position p of s: >\s*1(\.|\s|<)
Clause1At(s, p) ==
    /\ s[p] = ">"
    /\ SkipSpaces(s, p + 1) + 1 <= Len(s)
    /\ s[SkipSpaces(s, p + 1)] = "1"
    /\ s[SkipSpaces(s, p + 1) + 1] \in {".", " ", "<"}

\* CLAUSE_1_RE.search(html)
Clause1In(html) == \E p \in 1..Len(html) : Clause1At(html, p)

\* standard_phrasings
StandardPhrasings ==
    {<<"t", "h", "i", "s", " ", "d", "o", "c", "u", "m", "e", "n", "t">>,
     <<"t", "h", "i", "s", " ", "s", "t", "a", "n", "d", "a", "r", "d">>,
     <<"t", "h", "i", "s", " ", "p", "a", "r", "t">>,
     <<"t", "h", "i", "s", " ", "s", "p", "e", "c", "i", "f", "i", "c", "a", "t",
       "i", "o", "n">>,
     <<"t", "h", "i", "s", " ", "s", "e", "c", "t", "i", "o", "n">>,
     <<"t", "h", "i", "s", " ", "i", "n", "t", "e", "r", "n", "a", "t", "i", "o",
       "n", "a", "l", " ", "s", "t", "a", "n", "d", "a", "r", "d">>}

\* any(first_para.startswith(phrase) for phrase in standard_phrasings)
HasStandardPhrasing(para) ==
    \E phrase \in StandardPhrasings : StartsWith(Lower(para), phrase)

\* the truth value Python gives collecting, which is False, True or "clause1"
Truthy(collecting) == collecting # "False"

\* the truth value of a section_hierarchy: None and the empty dict are false
HierarchySet(hierarchy) == hierarchy # None /\ hierarchy # <<>>

\* the local variables of extract_scope before the loop
NewScan ==
    [scope_text |-> <<>>, collecting |-> "False", scope_hierarchy |-> None,
     found_explicit_scope |-> FALSE, clause1_candidate |-> <<>>]

\* lines 255 to 257: collecting stops when the hierarchy changes
StopOnHierarchy(f, block) ==
    IF /\ Truthy(f.collecting)
       /\ block.block_type = "SectionHeader"
       /\ HierarchySet(block.section_hierarchy)
       /\ block.section_hierarchy # f.scope_hierarchy
    THEN [f EXCEPT !.collecting = "False"]
    ELSE f

\* lines 260 to 263: the scope text is collected
CollectScopeText(f, block, text) ==
    IF Truthy(f.collecting) /\ block.block_type = "Text" /\ text # <<>>
    THEN [f EXCEPT !.scope_text = Append(@, text)]
    ELSE f

\* lines 266 to 278: the Clause 1 fallback
Clause1Fallback(f, block, text) ==
    IF /\ ~f.found_explicit_scope
       /\ block.block_type = "SectionHeader"
       /\ Clause1In(block.html)
    THEN [f EXCEPT !.collecting = "clause1"]
    ELSE [f EXCEPT
            !.clause1_candidate =
                IF f.collecting = "clause1" /\ block.block_type = "Text" /\ text # <<>>
                THEN Append(@, text) ELSE @,
            !.collecting =
                IF @ = "clause1" /\ block.block_type = "SectionHeader"
                THEN "False" ELSE @]

\* the body of the inner loop for one block of a page: f holds the local
\* variables, text is clean_html(html)
ScanBlock(f, block, text) ==
    IF block.block_type \in {"SectionHeader", "Text"} /\ ScopeHeaderIn(block.html)
    THEN [f EXCEPT !.collecting = "True",
                   !.found_explicit_scope = TRUE,
                   !.scope_hierarchy = block.section_hierarchy]
    ELSE Clause1Fallback(CollectScopeText(StopOnHierarchy(f, block), block, text),
                         block, text)

\* what extract_scope returns after the loop
ScopeResult(f) ==
    IF f.scope_text # <<>> THEN f.scope_text
    ELSE IF f.clause1_candidate # <<>> /\ HasStandardPhrasing(f.clause1_candidate[1])
         THEN f.clause1_candidate
    ELSE <<>>

\* the html of the blocks of the input documents
X_h_1_Scope ==
    <<"<", "h", "2", ">", "1", " ", "S", "c", "o", "p", "e", "<", "/", "h",
      "2", ">">>
X_h_1_General ==
    <<"<", "h", "2", ">", "1", " ", "G", "e", "n", "e", "r", "a", "l", "<",
      "/", "h", "2", ">">>
X_h_2_Terms ==
    <<"<", "h", "2", ">", "2", " ", "T", "e", "r", "m", "s", "<", "/", "h",
      "2", ">">>
X_p_This_document ==
    <<"<", "p", ">", "T", "h", "i", "s", " ", " ", "d", "o", "c", "u", "m",
      "e", "n", "t", " ", "a", "p", "p", "l", "i", "e", "s", ".", "<", "/",
      "p", ">">>
X_p_Cables ==
    <<"<", "p", ">", "C", "a", "b", "l", "e", "s", " ", "a", "r", "e", " ",
      "<", "b", ">", "t", "e", "s", "t", "e", "d", "<", "/", "b", ">", ".",
      "<", "/", "p", ">">>
X_p_blank ==
    <<"<", "p", ">", " ", "<", "/", "p", ">">>
X_li_1_item ==
    <<"<", "l", "i", ">", "1", " ", "i", "t", "e", "m", "<", "/", "l", "i",
      ">">>

Hier_1 == <<"1">>
Hier_2 == <<"2">>

ScopeBlock(block_type, html, section_hierarchy) ==
    [block_type |-> block_type, html |-> html, section_hierarchy |-> section_hierarchy]

SH_1_Scope   == ScopeBlock("SectionHeader", X_h_1_Scope, Hier_1)
SH_1_General == ScopeBlock("SectionHeader", X_h_1_General, None)
SH_2_Terms   == ScopeBlock("SectionHeader", X_h_2_Terms, Hier_2)
ST_This      == ScopeBlock("Text", X_p_This_document, None)
ST_Cables    == ScopeBlock("Text", X_p_Cables, Hier_1)
ST_Blank     == ScopeBlock("Text", X_p_blank, None)
SL_Item      == ScopeBlock("ListItem", X_li_1_item, None)

\* the blocks a page of an input document can hold
ScopeBlocks == {SH_1_Scope, SH_1_General, SH_2_Terms, ST_This, ST_Cables, ST_Blank,
                SL_Item}

\* the call extract_scope(json_path), before the file is read
InitScope ==
    /\ clauses = <<>>
    /\ context = NewContext
    /\ counters = NewCounters
    /\ files = {}
    /\ log = <<>>
    /\ source = {}
    /\ todo = <<>>
    /\ fed = <<>>
    /\ trail = <<>>
    /\ roots = <<>>
    /\ builds = 0
    /\ chunks = <<>>
    /\ result = NoResult
    /\ pc = "scope"
    /\ ChunkStageIdle
    /\ batch = <<>>
    /\ objects = <<>>
    /\ converters = <<>>
    /\ call = [fn |-> "extract_scope", state |-> "start", scanned |-> <<>>,
               skipped |-> FALSE, scan |-> NewScan, ret |-> None]

ScopeFrame ==
    /\ UNCHANGED schemaVars
    /\ UNCHANGED chunkVars
    /\ UNCHANGED <<pc, batch, objects, converters>>

\* data = json.loads(json_path.read_text(...)) succeeds
ScopeLoad ==
    /\ pc = "scope"
    /\ call.state = "start"
    /\ call' = [call EXCEPT !.state = "loop"]
    /\ ScopeFrame

\* json.loads or read_text raises: return []
ScopeUnreadable ==
    /\ pc = "scope"
    /\ call.state = "start"
    /\ call' = [call EXCEPT !.state = "returned", !.ret = <<>>]
    /\ ScopeFrame

\* a child of the document that is not a Page: continue
ScopeSkipChild ==
    /\ pc = "scope"
    /\ call.state = "loop"
    /\ ~call.skipped
    /\ call' = [call EXCEPT !.skipped = TRUE]
    /\ ScopeFrame

\* the body of the inner loop runs on the next block of a page
ScopeScanBlock ==
    /\ pc = "scope"
    /\ call.state = "loop"
    /\ Len(call.scanned) < MaxScanned
    /\ \E block \in ScopeBlocks :
          call' = [call EXCEPT
                      !.scanned = Append(@, block),
                      !.scan = ScanBlock(@, block, CleanHtml(block.html))]
    /\ ScopeFrame

\* the loops are over: the return statements of lines 281 to 298
ScopeReturn ==
    /\ pc = "scope"
    /\ call.state = "loop"
    /\ call' = [call EXCEPT !.state = "returned", !.ret = ScopeResult(call.scan)]
    /\ ScopeFrame

NextScope ==
    \/ ScopeLoad
    \/ ScopeUnreadable
    \/ ScopeSkipChild
    \/ ScopeScanBlock
    \/ ScopeReturn

SpecScope == InitScope /\ [][NextScope]_vars

\* a block of the document is an explicit Scope header
HasExplicitScope ==
    \E k \in 1..Len(call.scanned) :
        /\ call.scanned[k].block_type \in {"SectionHeader", "Text"}
        /\ ScopeHeaderIn(call.scanned[k].html)

\* C30: extract_scope returns Clause-1 text only through the gated
\* fallback: when the document has no explicit Scope header, what is
\* returned is the text collected under Clause 1 and its first paragraph
\* starts with one of the allowlisted phrases, or else the result is empty.
C30_Clause1TextOnlyThroughGate ==
    (pc = "scope" /\ call.state = "returned" /\ ~HasExplicitScope) =>
        \/ call.ret = <<>>
        \/ /\ call.ret = call.scan.clause1_candidate
           /\ HasStandardPhrasing(call.ret[1])

(***************************************************************************)
(* C31.  The current clause, over the processing of one document.          *)
(***************************************************************************)
\* the keys of the clause map, in insertion order
ClauseKeys(cs) == [i \in 1..Len(cs) |-> cs[i].id]

\* C31: in every state of the processing of a document the current clause
\* id is unset or a key of the clause map; no step removes a key from the
\* map; and once a clause is current, no step unsets the current clause id.
C31_CurrentClauseIsAKeyAndStaysSet ==
    /\ [](\/ context.current_clause_id = None
          \/ context.current_clause_id \in ClauseIds(clauses))
    /\ [][/\ IsPrefix(ClauseKeys(clauses), ClauseKeys(clauses'))
          /\ context.current_clause_id # None =>
                 context'.current_clause_id # None]_vars

\* two clauses are open and the first one was opened again: the current
\* clause id moved back to a key that was already in the map
C31_Witness ==
    /\ pc = "process"
    /\ Len(clauses) = 2
    /\ context.current_clause_id = clauses[1].id
    /\ \E k \in 1..Len(trail) :
          /\ trail[k].block_type = "SectionHeader"
          /\ \E j \in (k + 1)..Len(trail) : trail[j].block_type = "Text"

(***************************************************************************)
(* C32.  The image counters.                                               *)
(***************************************************************************)
\* the images of the Picture blocks handled so far: block k of the trail,
\* image i of the block
ImagesMet ==
    UNION {{k} \X (1..Len(trail[k].images)) :
              k \in {j \in 1..Len(trail) : trail[j].block_type = "Picture"}}

\* the payload is not empty and base64 decodes it
IsDecodable(img) == img.b64 # <<>> /\ B64Decode(img.b64).ok

DecodedImages == {s \in ImagesMet : IsDecodable(trail[s[1]].images[s[2]])}

\* the images whose file could not be written: every image that is skipped
\* leaves one warning, and the images without payload or with a payload
\* that does not decode are known from the input
FailedWrites == Len(log) - Cardinality(ImagesMet \ DecodedImages)

RECURSIVE FigureCount(_)
FigureCount(cs) ==
    IF cs = <<>> THEN 0 ELSE Len(cs[1].figures) + FigureCount(Tail(cs))

\* C32: images_in_clauses + images_in_misc never exceeds total_images and
\* the two are equal when no image file write failed; every decoded,
\* non-empty image is counted in total_images and, unless its write
\* failed, in exactly one of the two counters (the clause counter when a
\* clause is open, the misc counter otherwise); images_in_clauses is the
\* number of FigureEntry items over all clauses and images_in_misc the
\* number of misc-image records; the statistics of the result report these
\* counters.
C32_ImageCountersAddUp ==
    /\ [](/\ counters.clause_images + counters.misc_images <= counters.total_images
          /\ counters.total_images = Cardinality(DecodedImages)
          /\ FailedWrites >= 0
          /\ counters.clause_images + counters.misc_images
                 = counters.total_images - FailedWrites
          /\ counters.clause_images = FigureCount(clauses)
          /\ counters.misc_images = Len(counters.misc_image_metadata)
          /\ pc = "done" =>
                /\ result.statistics.total_images = counters.total_images
                /\ result.statistics.images_in_clauses = counters.clause_images
                /\ result.statistics.images_in_misc = counters.misc_images)
    /\ [][PictureStep =>
            IF HasCurrentClause(Machine)
            THEN counters'.misc_images = counters.misc_images
            ELSE counters'.clause_images = counters.clause_images]_vars

\* images were saved under a clause and as misc images, and the file of
\* one decoded image could not be written
C32_Witness ==
    /\ counters.clause_images >= 1
    /\ counters.misc_images >= 1
    /\ FailedWrites >= 1
    /\ Cardinality(ImagesMet \ DecodedImages) >= 1

(***************************************************************************)
(* C33.  The storage paths of the images of one document.                  *)
(***************************************************************************)
\* the index the file name of FigureEntry f of clause cid carries, 0 when
\* the path is not the path of an image of that clause
FigureIndex(cid, f) ==
    LET fits == {n \in 1..FigureCounter(counters.figure_counters, cid) :
                    f.path = ClauseImagePath(DocId, cid, n, ImgRef(f.original_key),
                                             <<".">> \o f.format)}
    IN  IF fits = {} THEN 0 ELSE Least(fits)

\* the paths recorded for the images of the document, clause by clause and
\* then the misc images
RECURSIVE FigurePaths(_)
FigurePaths(cs) ==
    IF cs = <<>> THEN <<>>
    ELSE [j \in 1..Len(cs[1].figures) |-> cs[1].figures[j].path] \o FigurePaths(Tail(cs))

StoredPaths ==
    FigurePaths(clauses)
        \o [j \in 1..Len(counters.misc_image_metadata) |->
               counters.misc_image_metadata[j].path]

\* the images of a block that reach _save_clause_image or _save_misc_image
HandedOver(block) ==
    Cardinality({i \in 1..Len(block.images) : IsDecodable(block.images[i])})

\* C33: within one document no two images are written to the same path.
\* The paths recorded are pairwise different and are the files written;
\* the index in the file names of a clause grows strictly along the
\* figures of the clause; the counter of a clause is never reset or
\* lowered (it is kept when the clause is opened again) and advances by
\* one for every image handed to _save_clause_image, the ones whose write
\* fails included; the misc counter advances the same way for the images
\* met outside every clause; and different clause identifiers have
\* different image subfolders.
C33_NoTwoImagesShareAPath ==
    /\ [](/\ NoDuplicates(StoredPaths)
          /\ files = Range(StoredPaths)
          /\ \A i \in 1..Len(clauses) : \A j \in 1..Len(clauses[i].figures) :
                /\ FigureIndex(clauses[i].id, clauses[i].figures[j]) >= 1
                /\ j > 1 => FigureIndex(clauses[i].id, clauses[i].figures[j - 1])
                               < FigureIndex(clauses[i].id, clauses[i].figures[j])
          /\ \A c1, c2 \in ClauseIds(clauses) :
                c1 # c2 => ReplaceChar(c1, ".", "_") # ReplaceChar(c2, ".", "_"))
    /\ [][/\ \A c \in DOMAIN counters.figure_counters :
                /\ c \in DOMAIN counters'.figure_counters
                /\ counters'.figure_counters[c] >= counters.figure_counters[c]
          /\ counters'.misc_image_counter >= counters.misc_image_counter
          /\ PictureStep =>
                IF HasCurrentClause(Machine)
                THEN /\ FigureCounter(counters'.figure_counters, context.current_clause_id)
                           = FigureCounter(counters.figure_counters,
                                           context.current_clause_id)
                                + HandedOver(todo[1])
                     /\ counters'.misc_image_counter = counters.misc_image_counter
                ELSE /\ counters'.misc_image_counter
                           = counters.misc_image_counter + HandedOver(todo[1])
                     /\ counters'.figure_counters = counters.figure_counters]_vars

\* the file of the first image of clause 6.1 could not be written; clause 6
\* was opened and got an image; clause 6.1 was opened again and its next
\* image has the index 2, while the image of clause 6 has the index 1 in a
\* folder of its own
C33_Witness ==
    /\ Len(clauses) = 2
    /\ clauses[1].id = K_6_1
    /\ clauses[2].id = K_6
    /\ context.current_clause_id = K_6_1
    /\ Len(clauses[1].figures) = 1
    /\ FigureIndex(K_6_1, clauses[1].figures[1]) = 2
    /\ Len(clauses[2].figures) = 1
    /\ FigureIndex(K_6, clauses[2].figures[1]) = 1
    /\ Len(log) = 1

(***************************************************************************)
(* C34.  The pending number is dropped when a clause is opened.            *)
(***************************************************************************)
\* a SectionHeader whose cleaned text is an identifier followed by a title
IsTitledHeader(b) ==
    /\ b.is_dict
    /\ b.block_type = "SectionHeader"
    /\ Len(StripHtml(b.html)) >= 2
    /\ IsClauseNumber(StripHtml(b.html)[1])

\* the places of the trail where a SectionHeader with some text was handled
HeaderPlaces ==
    {k \in 1..Len(trail) : /\ trail[k].is_dict
                           /\ trail[k].block_type = "SectionHeader"
                           /\ StripHtml(trail[k].html) # <<>>}

\* the last header handled was a header with identifier and title
LastHeaderWasTitled ==
    /\ HeaderPlaces # {}
    /\ IsTitledHeader(trail[Greatest(HeaderPlaces)])

\* C34: the pending bare number is cleared whenever a clause is opened.  A
\* step that opens a clause or makes one current leaves no number pending;
\* a header with identifier and title met while a number is pending adds
\* no clause but its own, so none for the pending number; a number is
\* pending only while the last header handled is the bare header that
\* stored it; and a header without identifier met when the last header
\* handled had identifier and title is ignored, a bare header before that
\* one notwithstanding.
C34_OpeningAClauseDropsThePendingNumber ==
    /\ [](context.pending_number # None =>
             /\ HeaderPlaces # {}
             /\ IsBareHeader(trail[Greatest(HeaderPlaces)])
             /\ context.pending_number
                   = StripHtml(trail[Greatest(HeaderPlaces)].html)[1])
    /\ [][/\ (\/ ClauseKeys(clauses') # ClauseKeys(clauses)
              \/ context'.current_clause_id # context.current_clause_id)
             => context'.pending_number = None
          /\ (TitledHeaderStep /\ context.pending_number # None) =>
                /\ context'.pending_number = None
                /\ ClauseIds(clauses') = ClauseIds(clauses) \cup {HeaderInfo[1]}
                /\ Len(clauses') <= Len(clauses) + 1
          /\ (BlockStep /\ IsTitleOnlyHeader(todo[1]) /\ LastHeaderWasTitled) =>
                /\ clauses' = clauses
                /\ context' = context]_vars

\* the bare header "A.2", then "6.1 Test Methods", then the header
\* "Environmental Tests": 6.1 is the only clause and has its own title,
\* nothing is pending
C34_Witness ==
    /\ trail = <<Node(H_A_2), Node(H_6_1_Test_Methods), Node(H_Environmental_Tests)>>
    /\ ClauseIds(clauses) = {K_6_1}
    /\ clauses[1].title = <<W_Test, W_Methods>>
    /\ context.pending_number = None
    /\ context.current_clause_id = K_6_1

(***************************************************************************)
(* C35.  The pending number survives the blocks that are no headers.       *)
(***************************************************************************)
\* process_block is about to run on a block that is no SectionHeader
NonHeaderStep ==
    /\ BlockStep
    /\ ~(todo[1].is_dict /\ todo[1].block_type = "SectionHeader")

\* process_block is about to run on a header without identifier while a
\* number is pending
TitleForPendingStep ==
    /\ BlockStep
    /\ IsTitleOnlyHeader(todo[1])
    /\ context.pending_number # None

\* C35: the pending bare number survives the blocks that are no headers.
\* Such a block leaves the pending number, the current clause and the keys
\* of the clause map as they are, and changes no clause but the current
\* one (none when no clause is open), so nothing is attached to the
\* pending clause; and the header without identifier that comes later
\* opens the clause of the pending number, with its text as title when the
\* clause is new, whatever came in between.
C35_PendingNumberSurvivesContent ==
    [][/\ NonHeaderStep =>
             /\ context'.pending_number = context.pending_number
             /\ context'.current_clause_id = context.current_clause_id
             /\ ClauseKeys(clauses') = ClauseKeys(clauses)
             /\ \A i \in 1..Len(clauses) :
                   clauses[i].id # context.current_clause_id
                      => clauses'[i] = clauses[i]
       /\ TitleForPendingStep =>
             /\ context'.current_clause_id = context.pending_number
             /\ context'.pending_number = None
             /\ context.pending_number \in ClauseIds(clauses')
             /\ ClauseIds(clauses') = ClauseIds(clauses) \cup {context.pending_number}
             /\ context.pending_number \notin ClauseIds(clauses) =>
                   ClauseAt(clauses', context.pending_number)
                      = NewClause(context.pending_number, StripHtml(todo[1].html))]_vars

\* "6 General", the bare header "A.2", a paragraph, then the header
\* "Environmental Tests": the paragraph is in clause 6, clause A.2 has the
\* later header as title and no content, and is the current clause
C35_Witness ==
    /\ trail = <<Node(H_6_General), Node(H_A_2), Node(T_Shall),
                 Node(H_Environmental_Tests)>>
    /\ ClauseKeys(clauses) = <<K_6, K_A_2>>
    /\ Len(clauses[1].content) = 1
    /\ clauses[1].content[1].type = "paragraph"
    /\ clauses[2] = NewClause(K_A_2, <<W_Environmental, W_Tests>>)
    /\ context.current_clause_id = K_A_2
    /\ context.pending_number = None

(***************************************************************************)
(* C36.  Clauses whose immediate parent is missing, and annex clauses.     *)
(***************************************************************************)
\* the clauses that list cid among their children
ParentsListing(cid) ==
    {clauses[j].id : j \in {k \in 1..Len(clauses) : cid \in Range(clauses[k].children)}}

\* the record flatten_clauses emitted for clause cid
RecordOf(cid) == chunks[ChunkPos(cid)]

\* C36: after build_clause_hierarchy a clause whose immediate structural
\* parent identifier is not a key of the clause map is a root with
\* parent_id None and is a child of no clause, a higher ancestor being
\* present or not; a clause whose immediate structural parent is a key is
\* the child of that clause alone, and for an annex identifier of any depth
\* that parent is the clause of the annex letter.  The flattened records
\* say the same.
C36_MissingParentMakesARoot ==
    /\ builds >= 1 =>
          \A i \in 1..Len(clauses) :
             LET cid == clauses[i].id
                 parent == DerivedParent(cid)
             IN  IF parent = None \/ parent \notin ClauseIds(clauses)
                 THEN /\ clauses[i].parent_id = None
                      /\ cid \in Range(roots)
                      /\ ParentsListing(cid) = {}
                 ELSE /\ clauses[i].parent_id = parent
                      /\ cid \notin Range(roots)
                      /\ ParentsListing(cid) = {parent}
                      /\ ~IsDigit(cid[1]) => Len(parent) = 1 /\ parent[1] = cid[1]
    /\ pc = "flat" =>
          \A i \in 1..Len(clauses) :
             /\ RecordOf(clauses[i].id).parent_id = clauses[i].parent_id
             /\ Range(RecordOf(clauses[i].id).children_ids) = Range(clauses[i].children)

\* clauses 6 and 6.1.2 without 6.1, and A and A.2.1 without A.2, built and
\* flattened: 6.1.2 is a root next to 6 and 6 has no child, A.2.1 is the
\* child of A
C36_Witness ==
    /\ pc = "flat"
    /\ ClauseIds(clauses) = {K_6, K_6_1_2, K_A, K_A_2_1}
    /\ roots = <<K_6, K_6_1_2, K_A>>
    /\ RecordOf(K_6_1_2).parent_id = None
    /\ RecordOf(K_6).children_ids = <<>>
    /\ RecordOf(K_A_2_1).parent_id = K_A
    /\ RecordOf(K_A).children_ids = <<K_A_2_1>>

(***************************************************************************)
(* resolve_internal_references applied on its own, to the raw references   *)
(* extract_internal_references can return for a chunk and the index main   *)
(* builds for a document.                                                  *)
(***************************************************************************)
W_6A == <<"6", "A">>

\* raw references: keyword references, bare numbers, tables and figures
RawReferences ==
    {Join(<<W_Clause, K_6_1>>, " "), Join(<<W_Annex, K_A>>, " "), K_6, K_6_1,
     Join(<<W_Table, K_6>>, " "), Join(<<W_Figure, K_6_1>>, " "),
     Join(<<W_Table, W_6A>>, " "), Join(<<W_Figure, K_7>>, " ")}

\* the chunk identifiers of a document
KnownIds == {K_6, K_6_1, K_A, W_doc_misc}

\* the subsets of S with at most n elements
UpTo(S, n) == {T \in SUBSET S : Cardinality(T) <= n}

InitResolve ==
    /\ clauses = <<>>
    /\ context = NewContext
    /\ counters = NewCounters
    /\ files = {}
    /\ log = <<>>
    /\ source = {}
    /\ todo = <<>>
    /\ fed = <<>>
    /\ trail = <<>>
    /\ roots = <<>>
    /\ builds = 0
    /\ chunks = <<>>
    /\ result = NoResult
    /\ pc = "call"
    /\ ChunkStageIdle
    /\ batch = <<>>
    /\ objects = <<>>
    /\ converters = <<>>
    /\ call \in {[fn |-> "resolve_internal_references", raw_refs |-> raw,
                  known_chunk_ids |-> known, document_id |-> d, ret |-> None] :
                    raw \in UpTo(RawReferences, MaxRefs), known \in SUBSET KnownIds,
                    d \in {DocId, StdId}}

\* internal_resolved = resolve_internal_references(internal_raw,
\*                                                 known_chunk_ids, doc_id)
CallResolveInternalReferences ==
    /\ pc = "call"
    /\ call.fn = "resolve_internal_references"
    /\ call' = [call EXCEPT
                  !.ret = ResolveInternalReferences(call.raw_refs, call.known_chunk_ids,
                                                    call.document_id)]
    /\ pc' = "returned"
    /\ UNCHANGED schemaVars
    /\ UNCHANGED chunkVars
    /\ UNCHANGED <<batch, objects, converters>>

NextResolve == CallResolveInternalReferences

SpecResolve == InitResolve /\ [][NextResolve]_vars

\* what follows the last blank of a raw reference, the whole reference
\* when it has no blank
TrailingToken(ref) ==
    LET blanks == {i \in 1..Len(ref) : ref[i] = " "} IN
    IF blanks = {} THEN ref ELSE SubSeq(ref, Greatest(blanks) + 1, Len(ref))

\* the reference documentId::N
Resolved(N) == call.document_id \o <<":", ":">> \o N

\* C37: resolution looks only at the trailing token of a raw reference.  A
\* raw reference whose trailing token is N, be it "Table N", "Figure N",
\* "Clause N" or the bare number N, has documentId::N in the resolved list
\* exactly when N is a chunk identifier of the document, and the resolved
\* list holds nothing else.
C37_ResolutionIgnoresTheKeyword ==
    (pc = "returned" /\ call.fn = "resolve_internal_references") =>
        /\ \A ref \in call.raw_refs :
              Resolved(TrailingToken(ref)) \in Range(call.ret)
                 <=> TrailingToken(ref) \in call.known_chunk_ids
        /\ \A k \in 1..Len(call.ret) :
              \E ref \in call.raw_refs : call.ret[k] = Resolved(TrailingToken(ref))

\* the raw references are "Table 6" and "Figure 6.1" only, the document
\* has the clauses 6 and 6.1: both are resolved
C37_Witness ==
    /\ pc = "returned"
    /\ call.fn = "resolve_internal_references"
    /\ call.raw_refs = {Join(<<W_Table, K_6>>, " "), Join(<<W_Figure, K_6_1>>, " ")}
    /\ {K_6, K_6_1} \subseteq call.known_chunk_ids
    /\ call.document_id = DocId
    /\ call.ret = <<Resolved(K_6), Resolved(K_6_1)>>

(***************************************************************************)
(* marker_ini.run_marker.  The endpoint lists the PDFs of the input        *)
(* directory, runs the extractor on the directory and moves the listed     *)
(* PDFs to the completed directory.  FastAPI runs a def endpoint in a      *)
(* thread pool, so several calls can be in progress on the same            *)
(* directories.                                                            *)
(***************************************************************************)
PdfNames == <<"a.pdf", "b.pdf", "c.pdf", "d.pdf">>

\* the PDFs the input directory can hold
InputPdfs == {PdfNames[i] : i \in 1..MaxPdfs}

\* a call of run_marker that has not started
NewRun ==
    [state |-> "idle", pdfs |-> <<>>, invoked |-> FALSE, exit |-> "none",
     moved |-> <<>>, response |-> None]

\* return {"status": "no_input", "message": "No PDFs found"}
NoInput(run) ==
    [run EXCEPT !.state = "returned",
                !.response = [status_code |-> 200, status |-> "no_input",
                              processed_pdfs |-> 0]]

\* A mutated handler: the failure of the extractor is swallowed and the
\* PDFs are moved all the same.
MarkerFailedIgnored(run) ==
    [run EXCEPT !.state = "extracted", !.exit = "failed"]

\* except subprocess.CalledProcessError:
\*     raise HTTPException(status_code=500, detail="Marker failed")
MarkerFailed(run) ==
    [run EXCEPT !.state = "returned", !.exit = "failed",
                !.response = [status_code |-> 500, status |-> "Marker failed",
                              processed_pdfs |-> 0]]

\* an exception run_marker does not catch leaves the endpoint: the server
\* answers 500
Uncaught(run) ==
    [run EXCEPT !.state = "returned",
                !.response = [status_code |-> 500, status |-> "Internal Server Error",
                              processed_pdfs |-> 0]]

\* return {"status": "success", "processed_pdfs": len(pdfs), ...}
Success(run) ==
    [run EXCEPT !.state = "returned",
                !.response = [status_code |-> 200, status |-> "success",
                              processed_pdfs |-> Len(run.pdfs)]]

\* shutil.move(str(pdf), str(COMPLETE_DIR / pdf.name)) on directories d
MoveToCompleted(d, pdf) ==
    [input |-> d.input \ {pdf}, completed |-> d.completed \cup {pdf}]

InitMarker ==
    /\ clauses = <<>>
    /\ context = NewContext
    /\ counters = NewCounters
    /\ files = {}
    /\ log = <<>>
    /\ source = {}
    /\ todo = <<>>
    /\ fed = <<>>
    /\ trail = <<>>
    /\ roots = <<>>
    /\ builds = 0
    /\ chunks = <<>>
    /\ result = NoResult
    /\ pc = "marker"
    /\ ChunkStageIdle
    /\ batch = <<>>
    /\ objects = <<>>
    /\ converters = <<>>
    /\ call \in {[fn |-> "run_marker",
                  dirs |-> [input |-> pdfs, completed |-> {}],
                  extractor_runs |-> 0,
                  runs |-> [k \in 1..MaxCalls |-> NewRun]] :
                    pdfs \in SUBSET InputPdfs}

MarkerFrame ==
    /\ UNCHANGED schemaVars
    /\ UNCHANGED chunkVars
    /\ UNCHANGED <<pc, batch, objects, converters>>

\* call k is in state s
RunAt(k, s) == pc = "marker" /\ call.runs[k].state = s

\* ensure_dirs(); pdfs = get_input_pdfs(): the glob lists the directory in
\* some order
ListPdfs ==
    \E k \in 1..MaxCalls :
       /\ RunAt(k, "idle")
       /\ \E pdfs \in Orderings(call.dirs.input) :
             call' = [call EXCEPT !.runs[k].state = "listed", !.runs[k].pdfs = pdfs]
       /\ MarkerFrame

\* if not pdfs: return
ReturnNoInput ==
    \E k \in 1..MaxCalls :
       /\ RunAt(k, "listed")
       /\ call.runs[k].pdfs = <<>>
       /\ call' = [call EXCEPT !.runs[k] = NoInput(@)]
       /\ MarkerFrame

\* subprocess.run(marker_cmd(), check=True, ...) starts the extractor
StartExtractor ==
    \E k \in 1..MaxCalls :
       /\ RunAt(k, "listed")
       /\ call.runs[k].pdfs # <<>>
       /\ call' = [call EXCEPT !.runs[k].state = "running",
                               !.runs[k].invoked = TRUE,
                               !.extractor_runs = @ + 1]
       /\ MarkerFrame

\* the executable cannot be started: subprocess.run raises an OSError,
\* which run_marker does not catch
ExtractorUnavailable ==
    \E k \in 1..MaxCalls :
       /\ RunAt(k, "listed")
       /\ call.runs[k].pdfs # <<>>
       /\ call' = [call EXCEPT !.runs[k] = [Uncaught(@) EXCEPT !.exit = "unavailable"]]
       /\ MarkerFrame

\* the extractor exits with status 0
ExtractorSucceeds ==
    \E k \in 1..MaxCalls :
       /\ RunAt(k, "running")
       /\ call' = [call EXCEPT !.runs[k].state = "extracted", !.runs[k].exit = "ok"]
       /\ MarkerFrame

\* the extractor exits with another status: CalledProcessError
ExtractorFails ==
    \E k \in 1..MaxCalls :
       /\ RunAt(k, "running")
       /\ call' = [call EXCEPT !.runs[k] = MarkerFailed(@)]
       /\ MarkerFrame

\* the next PDF of the list that is to be moved by call k
NextPdf(k) == call.runs[k].pdfs[Len(call.runs[k].moved) + 1]

\* move_to_completed: the next PDF of the list is moved
MovePdf ==
    \E k \in 1..MaxCalls :
       /\ RunAt(k, "extracted")
       /\ Len(call.runs[k].moved) < Len(call.runs[k].pdfs)
       /\ NextPdf(k) \in call.dirs.input
       /\ call' = [call EXCEPT !.dirs = MoveToCompleted(@, NextPdf(k)),
                               !.runs[k].moved = Append(@, NextPdf(k))]
       /\ MarkerFrame

\* move_to_completed: shutil.move raises (the PDF is no longer in the input
\* directory, or the file system refuses); run_marker does not catch it
MoveRaises ==
    \E k \in 1..MaxCalls :
       /\ RunAt(k, "extracted")
       /\ Len(call.runs[k].moved) < Len(call.runs[k].pdfs)
       /\ call' = [call EXCEPT !.runs[k] = Uncaught(@)]
       /\ MarkerFrame

\* every listed PDF is moved: return the success response
ReturnSuccess ==
    \E k \in 1..MaxCalls :
       /\ RunAt(k, "extracted")
       /\ Len(call.runs[k].moved) = Len(call.runs[k].pdfs)
       /\ call' = [call EXCEPT !.runs[k] = Success(@)]
       /\ MarkerFrame

NextMarker ==
    \/ ListPdfs
    \/ ReturnNoInput
    \/ StartExtractor
    \/ ExtractorUnavailable
    \/ ExtractorSucceeds
    \/ ExtractorFails
    \/ MovePdf
    \/ MoveRaises
    \/ ReturnSuccess

SpecMarker == InitMarker /\ [][NextMarker]_vars

\* C38: in run_marker the input PDFs are moved to the completed directory
\* only after the extractor has exited successfully.  The directories
\* change only by the move of a listed PDF by a call whose extractor exited
\* with success; a call whose extractor failed has moved nothing and
\* answers with the error 500 "Marker failed"; a call that found no PDF
\* has not invoked the extractor, has moved nothing and answers no_input.
C38_MoveOnlyAfterExtractorSuccess ==
    /\ [](pc = "marker" =>
            \A k \in 1..MaxCalls :
               LET run == call.runs[k] IN
               /\ run.moved # <<>> => run.exit = "ok"
               /\ run.exit = "failed" =>
                     /\ run.invoked
                     /\ run.moved = <<>>
                     /\ run.state = "returned"
                     /\ run.response.status_code = 500
                     /\ run.response.status = "Marker failed"
               /\ (run.state # "idle" /\ run.pdfs = <<>>) =>
                     /\ ~run.invoked
                     /\ run.moved = <<>>
                     /\ run.state = "returned" => run.response.status = "no_input"
               /\ IsPrefix(run.moved, run.pdfs)
               /\ Range(run.moved) \subseteq call.dirs.completed)
    /\ [][(pc = "marker" /\ call'.dirs # call.dirs) =>
            \E k \in 1..MaxCalls :
               /\ call.runs[k].exit = "ok"
               /\ call'.runs[k].moved = Append(call.runs[k].moved, NextPdf(k))
               /\ call'.dirs = MoveToCompleted(call.dirs, NextPdf(k))]_vars

\* two calls listed the same PDFs; the extractor of one failed and the call
\* answered with the error, having moved nothing; the extractor of the
\* other succeeded and that call moved every PDF and answered success
C38_Witness ==
    /\ pc = "marker"
    /\ \E k, j \in 1..MaxCalls :
          /\ call.runs[k].exit = "failed"
          /\ call.runs[k].state = "returned"
          /\ call.runs[k].pdfs # <<>>
          /\ call.runs[k].moved = <<>>
          /\ call.runs[j].exit = "ok"
          /\ call.runs[j].state = "returned"
          /\ call.runs[j].response.status = "success"
          /\ call.runs[j].moved = call.runs[j].pdfs
          /\ Range(call.runs[j].pdfs) = Range(call.runs[k].pdfs)
          /\ call.dirs.completed = Range(call.runs[j].moved)
          /\ call.dirs.input = {}

====
